---- MODULE Spec2Model ----
(***************************************************************************)
(* AdbServerClient: the client side of the ADB server protocol.           *)
(*                                                                         *)
(* Strings are sequences of Unicode code points, byte buffers are          *)
(* sequences of 0..255.  Errors are records [kind, detail].                *)
(***************************************************************************)
EXTENDS Integers, Sequences, FiniteSets, TLC

(***************************************************************************)
(* Bounds of the model.                                                    *)
(***************************************************************************)
\* longest request string given to a bare connect() call
MaxReqLen == 2
\* most key:value fields on one devices-l line
MaxFields == 2

\* the most signals raceSignal is given
MaxSignals == 2
\* the most packets a socket controller hands to its dispatcher
MaxPackets == 3
\* the most ack() calls a socket controller receives
MaxAcks == 3
\* the largest byteLength of a chunk written to a socket
MaxChunkLength == 2

(***************************************************************************)
(* Program constants.                                                      *)
(***************************************************************************)
VERSION == 41

(***************************************************************************)
(* String literals of the source, as code points.                          *)
(***************************************************************************)
OKAY == <<79, 75, 65, 89>>
FAIL == <<70, 65, 73, 76>>
HostVersion == <<104, 111, 115, 116, 58, 118, 101, 114, 115, 105, 111, 110>>
HostKill == <<104, 111, 115, 116, 58, 107, 105, 108, 108>>
HostHostFeatures ==
    <<104, 111, 115, 116, 58, 104, 111, 115, 116, 45, 102, 101, 97, 116, 117, 114, 101, 115>>
HostDevicesL == <<104, 111, 115, 116, 58, 100, 101, 118, 105, 99, 101, 115, 45, 108>>
HostFeatures == <<104, 111, 115, 116, 58, 102, 101, 97, 116, 117, 114, 101, 115>>
HostTportAny == <<104, 111, 115, 116, 58, 116, 112, 111, 114, 116, 58, 97, 110, 121>>
HostTransportId ==
    <<104, 111, 115, 116, 58, 116, 114, 97, 110, 115, 112, 111, 114, 116, 45, 105, 100, 58>>
HostTportSerial ==
    <<104, 111, 115, 116, 58, 116, 112, 111, 114, 116, 58, 115, 101, 114, 105, 97, 108, 58>>
HostTportUsb == <<104, 111, 115, 116, 58, 116, 112, 111, 114, 116, 58, 117, 115, 98>>
HostTportLocal == <<104, 111, 115, 116, 58, 116, 112, 111, 114, 116, 58, 108, 111, 99, 97, 108>>
HostPrefix == <<104, 111, 115, 116>>
TransportIdInfix == <<45, 116, 114, 97, 110, 115, 112, 111, 114, 116, 45, 105, 100, 58>>
SerialInfix == <<45, 115, 101, 114, 105, 97, 108, 58>>
UsbInfix == <<45, 117, 115, 98>>
LocalInfix == <<45, 108, 111, 99, 97, 108>>
Colon == <<58>>
WaitForPrefix == <<119, 97, 105, 116, 45, 102, 111, 114, 45>>
TypeAny == <<97, 110, 121>>
TypeUsb == <<117, 115, 98>>
TypeLocal == <<108, 111, 99, 97, 108>>
StateDevice == <<100, 101, 118, 105, 99, 101>>
StateDisconnect == <<100, 105, 115, 99, 111, 110, 110, 101, 99, 116>>
Dash == <<45>>

(***************************************************************************)
(* Generic helpers.                                                        *)
(***************************************************************************)
\* the value of an absent (undefined) number
Undefined == 0 - 1

RECURSIVE Flatten(_)
Flatten(ss) == IF ss = <<>> THEN <<>> ELSE Head(ss) \o Flatten(Tail(ss))

Reverse(s) == [i \in 1..Len(s) |-> s[Len(s) + 1 - i]]

\* s without its first n elements
Drop(s, n) == SubSeq(s, n + 1, Len(s))

Take(s, n) == SubSeq(s, 1, n)

(***************************************************************************)
(* Codecs.                                                                 *)
(***************************************************************************)
\* UTF-8 bytes of one code point
EncodeCodePoint(cp) ==
    IF cp < 128 THEN <<cp>>
    ELSE IF cp < 2048 THEN <<192 + (cp \div 64), 128 + (cp % 64)>>
    ELSE <<224 + (cp \div 4096), 128 + ((cp \div 64) % 64), 128 + (cp % 64)>>

RECURSIVE encodeUtf8(_)
encodeUtf8(value) ==
    IF value = <<>> THEN <<>>
    ELSE EncodeCodePoint(Head(value)) \o encodeUtf8(Tail(value))

\* decoding of the code points EncodeCodePoint produces (1, 2 and 3 byte forms)
RECURSIVE decodeUtf8(_)
decodeUtf8(buffer) ==
    IF buffer = <<>> THEN <<>>
    ELSE IF buffer[1] < 128 \/ Len(buffer) < 2
        THEN <<buffer[1]>> \o decodeUtf8(Tail(buffer))
    ELSE IF buffer[1] < 224 \/ Len(buffer) < 3
        THEN <<(buffer[1] - 192) * 64 + (buffer[2] - 128)>> \o decodeUtf8(Drop(buffer, 2))
    ELSE <<(buffer[1] - 224) * 4096 + (buffer[2] - 128) * 64 + (buffer[3] - 128)>>
             \o decodeUtf8(Drop(buffer, 3))

HexDigit(d) == IF d < 10 THEN 48 + d ELSE 87 + d

\* four lower-case hex digits of the low 16 bits of value
numberToHex(value) ==
    << HexDigit((value \div 4096) % 16), HexDigit((value \div 256) % 16),
       HexDigit((value \div 16) % 16), HexDigit(value % 16) >>

\* value of one hex digit, Undefined when the byte is no hex digit
HexValue(b) ==
    IF b >= 48 /\ b <= 57 THEN b - 48
    ELSE IF b >= 97 /\ b <= 102 THEN b - 87
    ELSE IF b >= 65 /\ b <= 70 THEN b - 55
    ELSE Undefined

RECURSIVE HexFold(_, _)
HexFold(acc, data) ==
    IF data = <<>> THEN acc
    ELSE IF acc = Undefined \/ HexValue(Head(data)) = Undefined THEN Undefined
    ELSE HexFold(acc * 16 + HexValue(Head(data)), Tail(data))

\* number denoted by hex digits, Undefined when a byte is no hex digit
hexToNumber(data) == HexFold(0, data)

(***************************************************************************)
(* bigint values: the base-256 digits, most significant first, without     *)
(* leading zero digits; 0n is the empty sequence.                          *)
(***************************************************************************)
RECURSIVE StripZeros(_)
StripZeros(digits) ==
    IF digits # <<>> /\ Head(digits) = 0 THEN StripZeros(Tail(digits)) ELSE digits

\* the bigint of a small natural number
RECURSIVE BigOf(_)
BigOf(n) == IF n = 0 THEN <<>> ELSE BigOf(n \div 256) \o <<n % 256>>

\* the value of an absent (undefined) bigint or string
UndefinedString == <<Undefined>>

\* long division by ten: [q, r]
RECURSIVE DivTen(_, _, _)
DivTen(digits, carry, acc) ==
    IF digits = <<>> THEN [q |-> StripZeros(acc), r |-> carry]
    ELSE DivTen(Tail(digits), (carry * 256 + Head(digits)) % 10,
                Append(acc, (carry * 256 + Head(digits)) \div 10))

\* big * 10 + carry, on the digits least significant first
RECURSIVE TimesTen(_, _)
TimesTen(reversed, carry) ==
    IF reversed = <<>> THEN (IF carry = 0 THEN <<>> ELSE <<carry>>)
    ELSE <<(Head(reversed) * 10 + carry) % 256>>
             \o TimesTen(Tail(reversed), (Head(reversed) * 10 + carry) \div 256)

\* BigIntFieldType.Uint64.getter(dataView, 0, true): little-endian unsigned
Uint64LE(array) == StripZeros(Reverse(array))

\* the server's encoding of a transport id: 8 bytes, little-endian
RECURSIVE ToBytesLE(_, _)
ToBytesLE(n, count) ==
    IF count = 0 THEN <<>> ELSE <<n % 256>> \o ToBytesLE(n \div 256, count - 1)

\* writeString with the length prefix taken from the string, not its bytes
writeString_StringLength(value) ==
    numberToHex(Len(value)) \o encodeUtf8(value)

\* the buffer AdbServerClient.writeString hands to writer.write
writeString(value) ==
    numberToHex(Len(encodeUtf8(value))) \o encodeUtf8(value)

\* a string frame as the server sends it
Frame(value) == writeString(value)

(***************************************************************************)
(* Errors.                                                                 *)
(***************************************************************************)
Err(kind, detail) == [kind |-> kind, detail |-> detail]

NoError == Err("none", <<>>)

(***************************************************************************)
(* Reading from a BufferedReadableStream.  A read request is answered from *)
(* rem, the bytes the server sends that are not consumed yet.  Every       *)
(* reader returns [error, value, reads]: reads are the readExactly calls   *)
(* that were satisfied, in order.                                          *)
(***************************************************************************)
ReadResult(error, value, reads) == [error |-> error, value |-> value, reads |-> reads]

\* stream.readExactly(n); the stream ends when fewer than n bytes follow
readExactly(rem, n) ==
    IF Len(rem) >= n
        THEN ReadResult(NoError, Take(rem, n), <<Take(rem, n)>>)
        ELSE ReadResult(Err("UnexpectedEnd", <<>>), <<>>, <<>>)

\* AdbServerClient.readString
readString(rem) ==
    LET head == readExactly(rem, 4)
        length == hexToNumber(head.value)
        body == readExactly(Drop(rem, 4), length)
    IN  IF head.error # NoError THEN head
        ELSE IF length = Undefined
            THEN ReadResult(Err("DecodeError", <<>>), <<>>, head.reads)
        ELSE IF length = 0
            THEN ReadResult(NoError, decodeUtf8(<<>>), head.reads)
        ELSE IF body.error # NoError
            THEN ReadResult(body.error, <<>>, head.reads)
        ELSE ReadResult(NoError, decodeUtf8(body.value), head.reads \o body.reads)

\* readOkay reading a reason frame after every response other than OKAY
readOkay_AlwaysReason(rem) ==
    LET head == readExactly(rem, 4)
        response == decodeUtf8(head.value)
        reason == readString(Drop(rem, 4))
    IN  IF head.error # NoError THEN head
        ELSE IF response = OKAY THEN ReadResult(NoError, <<>>, head.reads)
        ELSE IF reason.error # NoError
            THEN ReadResult(reason.error, <<>>, head.reads \o reason.reads)
        ELSE ReadResult(Err("ProtocolFailure", reason.value), <<>>,
                        head.reads \o reason.reads)

\* AdbServerClient.readOkay
readOkay(rem) ==
    LET head == readExactly(rem, 4)
        response == decodeUtf8(head.value)
        reason == readString(Drop(rem, 4))
    IN  IF head.error # NoError THEN head
        ELSE IF response = OKAY THEN ReadResult(NoError, <<>>, head.reads)
        ELSE IF response = FAIL
            THEN IF reason.error # NoError
                     THEN ReadResult(reason.error, <<>>, head.reads \o reason.reads)
                     ELSE ReadResult(Err("ProtocolFailure", reason.value), <<>>,
                                     head.reads \o reason.reads)
        ELSE ReadResult(Err("UnexpectedResponse", response), <<>>, head.reads)

\* String.prototype.split with a one-character separator
RECURSIVE SplitFrom(_, _, _)
SplitFrom(s, sep, acc) ==
    IF s = <<>> THEN <<acc>>
    ELSE IF Head(s) = sep THEN <<acc>> \o SplitFrom(Tail(s), sep, <<>>)
    ELSE SplitFrom(Tail(s), sep, Append(acc, Head(s)))

Split(s, sep) == SplitFrom(s, sep, <<>>)

NonEmpty(s) == s # <<>>

(***************************************************************************)
(* Device selectors.  A selector is undefined (none) or an object; keys    *)
(* are the property names present in the object.                           *)
(***************************************************************************)
Selector(none, keys, transportId, serial) ==
    [none |-> none, keys |-> keys, transportId |-> transportId, serial |-> serial]

SerialX == <<88>>

SelNone == Selector(TRUE, {}, <<>>, <<>>)
SelTransportId(n) == Selector(FALSE, {"transportId"}, n, <<>>)
SelSerial(x) == Selector(FALSE, {"serial"}, <<>>, x)
SelUsb == Selector(FALSE, {"usb"}, <<>>, <<>>)
SelTcp == Selector(FALSE, {"tcp"}, <<>>, <<>>)
\* objects outside the AdbServerDeviceSelector type
SelEmpty == Selector(FALSE, {}, <<>>, <<>>)
SelBoth == Selector(FALSE, {"transportId", "serial"}, BigOf(5), SerialX)
SelUsbTcp == Selector(FALSE, {"usb", "tcp"}, <<>>, <<>>)
SelUnknown == Selector(FALSE, {"name"}, <<>>, <<>>)

\* the ids a {transportId} selector is given
SelectorIds == {BigOf(5), BigOf(300)}

Selectors ==
    {SelNone, SelSerial(SerialX), SelUsb, SelTcp, SelEmpty, SelBoth, SelUsbTcp, SelUnknown}
        \cup {SelTransportId(n) : n \in SelectorIds}

\* the decimal digits of a bigint other than 0n
RECURSIVE DecimalDigits(_)
DecimalDigits(big) ==
    IF big = <<>> THEN <<>>
    ELSE DecimalDigits(DivTen(big, 0, <<>>).q) \o <<48 + DivTen(big, 0, <<>>).r>>

\* `${bigint}`
NumberToDecimal(big) == IF big = <<>> THEN <<48>> ELSE DecimalDigits(big)

InvalidSelector == Err("InvalidSelector", <<>>)

\* formatDeviceService giving {tcp: true} the prefix of {usb: true}
formatDeviceService_LocalAsUsb(device, command) ==
    IF device.none
        THEN [error |-> NoError, value |-> HostPrefix \o Colon \o command]
    ELSE IF "transportId" \in device.keys
        THEN [error |-> NoError,
              value |-> HostPrefix \o TransportIdInfix
                            \o NumberToDecimal(device.transportId) \o Colon \o command]
    ELSE IF "serial" \in device.keys
        THEN [error |-> NoError,
              value |-> HostPrefix \o SerialInfix \o device.serial \o Colon \o command]
    ELSE IF "usb" \in device.keys \/ "tcp" \in device.keys
        THEN [error |-> NoError, value |-> HostPrefix \o UsbInfix \o Colon \o command]
    ELSE [error |-> InvalidSelector, value |-> <<>>]

\* formatDeviceService: [error, value]
formatDeviceService(device, command) ==
    IF device.none
        THEN [error |-> NoError, value |-> HostPrefix \o Colon \o command]
    ELSE IF "transportId" \in device.keys
        THEN [error |-> NoError,
              value |-> HostPrefix \o TransportIdInfix
                            \o NumberToDecimal(device.transportId) \o Colon \o command]
    ELSE IF "serial" \in device.keys
        THEN [error |-> NoError,
              value |-> HostPrefix \o SerialInfix \o device.serial \o Colon \o command]
    ELSE IF "usb" \in device.keys
        THEN [error |-> NoError, value |-> HostPrefix \o UsbInfix \o Colon \o command]
    ELSE IF "tcp" \in device.keys
        THEN [error |-> NoError, value |-> HostPrefix \o LocalInfix \o Colon \o command]
    ELSE [error |-> InvalidSelector, value |-> <<>>]

\* the selector chain of connectDevice: [error, switchService, transportId]
SwitchService(device) ==
    IF device.none
        THEN [error |-> NoError, switchService |-> HostTportAny, transportId |-> UndefinedString]
    ELSE IF "transportId" \in device.keys
        THEN [error |-> NoError,
              switchService |-> HostTransportId \o NumberToDecimal(device.transportId),
              transportId |-> device.transportId]
    ELSE IF "serial" \in device.keys
        THEN [error |-> NoError, switchService |-> HostTportSerial \o device.serial,
              transportId |-> UndefinedString]
    ELSE IF "usb" \in device.keys
        THEN [error |-> NoError, switchService |-> HostTportUsb, transportId |-> UndefinedString]
    ELSE IF "tcp" \in device.keys
        THEN [error |-> NoError, switchService |-> HostTportLocal, transportId |-> UndefinedString]
    ELSE [error |-> InvalidSelector, switchService |-> <<>>, transportId |-> UndefinedString]

\* the selector chain of waitFor: [error, type]
WaitForType(device) ==
    IF device.none THEN [error |-> NoError, type |-> TypeAny]
    ELSE IF "transportId" \in device.keys THEN [error |-> NoError, type |-> TypeAny]
    ELSE IF "serial" \in device.keys THEN [error |-> NoError, type |-> TypeAny]
    ELSE IF "usb" \in device.keys THEN [error |-> NoError, type |-> TypeUsb]
    ELSE IF "tcp" \in device.keys THEN [error |-> NoError, type |-> TypeLocal]
    ELSE [error |-> InvalidSelector, type |-> <<>>]

\* validateVersion accepting every server that is not older than the client
VersionMatches_AtLeast(version) == version >= VERSION

\* validateVersion's test of the version getVersion returned
VersionMatches(version) == version = VERSION

(***************************************************************************)
(* The devices-l parser of getDevices.                                     *)
(***************************************************************************)
KeyProduct == <<112, 114, 111, 100, 117, 99, 116>>
KeyModel == <<109, 111, 100, 101, 108>>
KeyDevice == <<100, 101, 118, 105, 99, 101>>
KeyTransportId == <<116, 114, 97, 110, 115, 112, 111, 114, 116, 95, 105, 100>>

IsWhiteSpace(c) == c \in {9, 10, 11, 12, 13, 32}

RECURSIVE TrimStart(_)
TrimStart(s) ==
    IF s # <<>> /\ IsWhiteSpace(Head(s)) THEN TrimStart(Tail(s)) ELSE s

Trim(s) == Reverse(TrimStart(Reverse(TrimStart(s))))

RECURSIVE DecimalFold(_, _)
DecimalFold(acc, s) ==
    IF s = <<>> THEN acc
    ELSE DecimalFold(Reverse(TimesTen(Reverse(acc), Head(s) - 48)), Tail(s))

\* BigInt(value) for decimal literals: [error, value]
BigInt(value) ==
    IF value = UndefinedString
        THEN [error |-> Err("TypeError", <<>>), value |-> UndefinedString]
    ELSE IF \A i \in 1..Len(Trim(value)) : Trim(value)[i] \in 48..57
        THEN [error |-> NoError, value |-> StripZeros(DecimalFold(<<>>, Trim(value)))]
    ELSE [error |-> Err("SyntaxError", value), value |-> UndefinedString]

DeviceFields(product, model, device, transportId, error) ==
    [product |-> product, model |-> model, device |-> device,
     transportId |-> transportId, error |-> error]

\* one round of the loop over parts[2..]: const [key, value] = part.split(":")
ParseField(acc, part) ==
    LET kv == Split(part, 58)
        key == kv[1]
        value == IF Len(kv) >= 2 THEN kv[2] ELSE UndefinedString
    IN  IF acc.error # NoError THEN acc
        ELSE IF key = KeyProduct THEN [acc EXCEPT !.product = value]
        ELSE IF key = KeyModel THEN [acc EXCEPT !.model = value]
        ELSE IF key = KeyDevice THEN [acc EXCEPT !.device = value]
        ELSE IF key = KeyTransportId
            THEN IF BigInt(value).error # NoError
                     THEN [acc EXCEPT !.error = BigInt(value).error]
                     ELSE [acc EXCEPT !.transportId = BigInt(value).value]
        ELSE acc

RECURSIVE ParseFields(_, _)
ParseFields(acc, parts) ==
    IF parts = <<>> THEN acc
    ELSE ParseFields(ParseField(acc, Head(parts)), Tail(parts))

\* one round of the loop over the lines: [error, skip, entry]
ParseLine(line) ==
    LET parts == SelectSeq(Split(line, 32), NonEmpty)
        serial == IF Len(parts) >= 1 THEN parts[1] ELSE UndefinedString
        status == IF Len(parts) >= 2 THEN parts[2] ELSE UndefinedString
        fields == ParseFields(
                      DeviceFields(UndefinedString, UndefinedString, UndefinedString,
                                   UndefinedString, NoError),
                      Drop(parts, 2))
        entry == [serial |-> serial, product |-> fields.product, model |-> fields.model,
                  device |-> fields.device, transportId |-> fields.transportId]
    IN  IF line = <<>> THEN [error |-> NoError, skip |-> TRUE, entry |-> entry]
        ELSE IF status # StateDevice THEN [error |-> NoError, skip |-> TRUE, entry |-> entry]
        ELSE IF fields.error # NoError
            THEN [error |-> fields.error, skip |-> TRUE, entry |-> entry]
        ELSE IF fields.transportId = UndefinedString \/ fields.transportId = <<>>
            THEN [error |-> Err("MissingTransportId", serial), skip |-> TRUE, entry |-> entry]
        ELSE [error |-> NoError, skip |-> FALSE, entry |-> entry]

RECURSIVE ParseLines(_, _)
ParseLines(devices, lines) ==
    IF lines = <<>> THEN [error |-> NoError, devices |-> devices]
    ELSE IF ParseLine(Head(lines)).error # NoError
        THEN [error |-> ParseLine(Head(lines)).error, devices |-> <<>>]
    ELSE IF ParseLine(Head(lines)).skip THEN ParseLines(devices, Tail(lines))
    ELSE ParseLines(Append(devices, ParseLine(Head(lines)).entry), Tail(lines))

\* the body of getDevices after the string frame is read: [error, devices]
ParseDevices(response) == ParseLines(<<>>, Split(response, 10))

(***************************************************************************)
(* The environment: what callers pass in and what the server sends.        *)
(***************************************************************************)
\* code points of request strings given to connect(): h, e-acute, euro sign
RequestChars == {104, 233, 8364}

Requests == UNION {[1..n -> RequestChars] : n \in 0..MaxReqLen}

\* the service connectDevice is asked to forward: shell:
ShellService == <<115, 104, 101, 108, 108, 58>>

\* reasons stored in abort signals
Reasons == {<<82, 49>>, <<82, 50>>}

Signal(given, aborted, reason, listeners) ==
    [given |-> given, aborted |-> aborted, reason |-> reason, listeners |-> listeners]

NoSignal == Signal(FALSE, FALSE, <<>>, 0)

\* options.signal as the caller passes it
CallerSignals ==
    {NoSignal} \cup {Signal(TRUE, a, r, 0) : a \in BOOLEAN, r \in Reasons}

\* versions a server may report
ServerVersions == {40, 41, 65}

\* the 8-byte transport ids a server may send: 7, 258 and 2^63 + 1
ServerIdBytes == {ToBytesLE(7, 8), ToBytesLE(258, 8), <<1, 0, 0, 0, 0, 0, 0, 128>>}

FailReason == <<110, 111>>

FeatureList == <<97, 44, 98>>

\* acknowledgements other than OKAY: FAIL with a reason, FAIL cut short,
\* four other bytes before a frame, and a stream that ends early
BadAcks ==
    {FAIL \o Frame(FailReason), FAIL \o <<48, 48>>, <<87, 88, 89, 90>> \o Frame(<<97>>),
     <<79, 75>>}

\* the host:version answer for version v
VersionAnswer(v) == OKAY \o Frame(decodeUtf8(numberToHex(v)))

VersionScripts ==
    BadAcks \cup {VersionAnswer(v) : v \in ServerVersions}
        \cup {OKAY \o <<48, 48, 48>>, OKAY \o Frame(<<122, 122>>)}

ConnectScripts == BadAcks \cup {OKAY, OKAY \o <<1, 2>>}

FeaturesScripts ==
    BadAcks \cup {OKAY \o Frame(FeatureList), OKAY \o Frame(<<>>), OKAY \o <<48, 48, 48, 52, 97>>}

\* after the bind request: ack, optional 8-byte id, second ack, features frame
BindScripts ==
    BadAcks \cup
    { OKAY \o id \o ack \o tail :
        id \in {<<>>} \cup ServerIdBytes,
        ack \in {OKAY, FAIL \o Frame(FailReason), <<>>},
        tail \in {<<>>, Frame(FeatureList), <<48, 48, 48, 52, 97>>} }

DeviceTokenId(n) == KeyTransportId \o Colon \o NumberToDecimal(BigOf(n))

\* devices-l payloads of the full client runs
DevicePayloads ==
    { SerialX \o <<32>> \o StateDevice \o <<32>> \o DeviceTokenId(7) \o <<10>>,
      SerialX \o <<32>> \o <<111, 102, 102>> \o <<10>>,
      SerialX \o <<32>> \o StateDevice \o <<10>>,
      <<89>> \o <<32>> \o StateDevice \o <<32>> \o DeviceTokenId(258) \o <<10>>
          \o SerialX \o <<32>> \o StateDevice \o <<32>> \o KeyProduct \o Colon \o <<112>>
          \o <<32>> \o KeyModel \o Colon \o <<109>> \o <<32>> \o KeyDevice \o Colon \o <<100>>
          \o <<32>> \o DeviceTokenId(7) \o <<10>> }

DevicesScripts == BadAcks \cup {OKAY \o Frame(p) : p \in DevicePayloads}

\* the sizes of the chunks a transport may deliver: out of step with the
\* 4-byte acks, and everything at once
ChunkSizes == {3, 1024}

ServerScripts(command, stg) ==
    IF stg = "version" THEN VersionScripts
    ELSE IF stg = "bind" THEN BindScripts
    ELSE IF stg = "list" THEN DevicesScripts
    ELSE IF command = "getVersion" THEN VersionScripts
    ELSE IF command = "getServerFeatures" THEN FeaturesScripts
    ELSE IF command = "getDevices" THEN DevicesScripts
    ELSE ConnectScripts

\* devices-l lines: serial, status, then up to MaxFields fields, each
\* preceded by a separator
LineSeparators == {<<32>>, <<9>>, <<32, 32>>}

LineStatuses == {StateDevice, <<111, 102, 102>>}

LineFields ==
    {DeviceTokenId(2), DeviceTokenId(0), KeyTransportId \o Colon, KeyTransportId,
     KeyProduct \o Colon \o <<112>>}

LineTails ==
    UNION {[1..n -> {sep \o field : sep \in LineSeparators, field \in LineFields}] :
               n \in 0..MaxFields}

DeviceLines ==
    { <<65>> \o sep \o status \o Flatten(tail) :
        sep \in LineSeparators, status \in LineStatuses, tail \in LineTails }

SecondLines == {<<>>, <<66>> \o <<32>> \o StateDevice \o <<32>> \o DeviceTokenId(3)}

ListingPayloads == {first \o <<10>> \o second : first \in DeviceLines, second \in SecondLines}

(***************************************************************************)
(* State.                                                                  *)
(***************************************************************************)
VARIABLES
    cmd,              \* the method of AdbServerClient that was called
    device,           \* its device selector argument
    service,          \* its service argument (connectDevice)
    request,          \* the request argument of the running connect()
    stage,            \* which connect() runs: "main", "version", "bind" or "list"
    pc,               \* where the call is suspended
    conns,            \* the connections the connector returned, oldest first
    signal,           \* options.signal
    abortedAtCall,    \* the signal was aborted when the method was called
    abortedDuringAck, \* the signal fired between the request write and the ack
    err,              \* the error that started the running cleanup
    errSite,          \* the function that raised err
    ret,              \* the value a finally block holds back
    result,           \* how the promise of the call settled
    transportId,      \* connectDevice's local transportId
    version,          \* the version getVersion returned
    signals,          \* raceSignal: its signals argument
    index,            \* raceSignal: how many signals the first loop has passed
    callback,         \* raceSignal: the promise callback() returned
    abortPromise,     \* raceSignal: the promise its abort listener rejects
    raced,            \* raceSignal: how Promise.race settled
    availableWriteBytes, \* AdbSocketController._availableWriteBytes
    writeLock,        \* AdbSocketController._writeLock
    closed,           \* AdbSocketController._closed
    disposed,         \* the dispose callback of the controller has run
    writer,           \* the running write of the controller's writable
    packets,          \* the packets handed to dispatcher.sendPacket, in order
    acks              \* the arguments of the ack() calls, in order

clientVars == <<cmd, device, service, request, stage, pc, conns, signal, abortedAtCall,
                abortedDuringAck, err, errSite, ret, result, transportId, version>>

raceVars == <<signals, index, callback, abortPromise, raced>>

socketVars == <<availableWriteBytes, writeLock, closed, disposed, writer, packets, acks>>

vars == <<clientVars, raceVars, socketVars>>

callVars == <<cmd, device, service>>
signalVars == <<signal, abortedAtCall, abortedDuringAck>>

Pending == [status |-> "pending", error |-> NoError, value |-> <<>>]
\* the promise of a function that was not called
NotCalled == [status |-> "none", error |-> NoError, value |-> <<>>]
Resolved(value) == [status |-> "ok", error |-> NoError, value |-> value]
Rejected(error) == [status |-> "error", error |-> error, value |-> <<>>]

\* an I/O call on a connection and whether it succeeded
Event(op, data, ok) == [op |-> op, data |-> data, ok |-> ok]

ReadEvents(reads) == [i \in 1..Len(reads) |-> Event("read", reads[i], TRUE)]

\* the chunks in which a transport delivers bytes, size bytes at a time
RECURSIVE Chunks(_, _)
Chunks(bytes, size) ==
    IF bytes = <<>> THEN <<>>
    ELSE IF Len(bytes) <= size THEN <<bytes>>
    ELSE <<Take(bytes, size)>> \o Chunks(Drop(bytes, size), size)

\* a connection: the bytes the server sends in all (incoming), the size of
\* the chunks its transport delivers (chunk), the chunks the stream under the buffered reader has still to yield (source), the bytes
\* the buffered reader has pulled and not handed out (buffer), and the count
\* of bytes handed out (consumed)
NewConnection(req, script, size) ==
    [request |-> req, incoming |-> script, chunk |-> size,
     source |-> Chunks(script, size), buffer |-> <<>>, consumed |-> 0, io |-> <<>>,
     acked |-> FALSE]

Cur == conns[Len(conns)]

\* BufferedReadableStream.readExactly for n bytes in all: chunks are pulled
\* until the buffer holds n bytes, which are then taken from its front
RECURSIVE Buffered(_, _)
Buffered(c, n) ==
    IF Len(c.buffer) >= n \/ c.source = <<>>
        THEN [c EXCEPT !.buffer = Drop(@, n)]
        ELSE Buffered([c EXCEPT !.buffer = @ \o Head(c.source), !.source = Tail(@)], n)

\* BufferedReadableStream.release(): a stream that yields the buffered bytes
\* first and the stream below afterwards, under a new buffered reader
release(c) ==
    [c EXCEPT !.buffer = <<>>,
              !.source = IF c.buffer = <<>> THEN @ ELSE <<c.buffer>> \o @]

\* the bytes the buffered reader of the current connection has still to
\* hand out
Rem == Cur.buffer \o Flatten(Cur.source)

\* the current connection after the reads of a ReadResult and further events
AfterIo(reads, events) ==
    [conns EXCEPT ![Len(conns)] =
        [Buffered(@, Len(Flatten(reads)))
            EXCEPT !.consumed = @ + Len(Flatten(reads)),
                   !.io = @ \o ReadEvents(reads) \o events]]

WriteError == Err("WriteError", <<>>)
CancelError == Err("CancelError", <<>>)
CloseError == Err("CloseError", <<>>)
Aborted(reason) == Err("Aborted", reason)

\* no raceSignal call is running
RaceInit ==
    /\ signals = <<>>
    /\ index = 0
    /\ callback = NotCalled
    /\ abortPromise = Pending
    /\ raced = Pending

\* a write of the controller's writable: where it is suspended, the
\* byteLength of its chunk and _availableWriteBytes when it was called
Write(at, byteLength, available) ==
    [pc |-> at, byteLength |-> byteLength, available |-> available]

\* socket.ts lines 54-64 and 79-84: the fields of a constructed controller
SocketInit ==
    /\ availableWriteBytes = 0
    /\ writeLock = [locked |-> FALSE, queue |-> <<>>]
    /\ closed = FALSE
    /\ disposed = FALSE
    /\ writer = Write("idle", 0, 0)
    /\ packets = <<>>
    /\ acks = <<>>

\* no method of the client has been called
ClientInit ==
    /\ cmd = "none"
    /\ device = SelNone
    /\ service = <<>>
    /\ request = <<>>
    /\ stage = "main"
    /\ pc = "idle"
    /\ conns = <<>>
    /\ signal = NoSignal
    /\ abortedAtCall = FALSE
    /\ abortedDuringAck = FALSE
    /\ err = NoError
    /\ errSite = "none"
    /\ ret = <<>>
    /\ result = Pending
    /\ transportId = UndefinedString
    /\ version = Undefined

Init == ClientInit /\ RaceInit /\ SocketInit

(***************************************************************************)
(* Calls of the public methods.                                            *)
(***************************************************************************)
Begin(command, selector, svc, req, stg, sig) ==
    /\ pc = "idle"
    /\ cmd' = command
    /\ device' = selector
    /\ service' = svc
    /\ request' = req
    /\ stage' = stg
    /\ signal' = sig
    /\ abortedAtCall' = sig.aborted
    /\ pc' = "c_dial"
    /\ UNCHANGED <<conns, abortedDuringAck, err, errSite, ret, result, transportId, version>>
    /\ UNCHANGED <<raceVars, socketVars>>

CallConnect ==
    \E req \in Requests, sig \in CallerSignals :
        Begin("connect", SelNone, <<>>, req, "main", sig)

CallGetVersion == Begin("getVersion", SelNone, <<>>, HostVersion, "main", NoSignal)

CallKillServer == Begin("killServer", SelNone, <<>>, HostKill, "main", NoSignal)

CallGetServerFeatures ==
    Begin("getServerFeatures", SelNone, <<>>, HostHostFeatures, "main", NoSignal)

CallGetDevices == Begin("getDevices", SelNone, <<>>, HostDevicesL, "main", NoSignal)

\* connectDevice starts with validateVersion -> getVersion -> connect("host:version")
CallConnectDevice ==
    \E selector \in Selectors :
        Begin("connectDevice", selector, ShellService, HostVersion, "version", NoSignal)

\* getDeviceFeatures starts with connectDevice(device, "host:features")
CallGetDeviceFeatures ==
    \E selector \in Selectors :
        Begin("getDeviceFeatures", selector, HostFeatures, HostVersion, "version", NoSignal)

\* createTransport starts with getDeviceFeatures(device)
CallCreateTransport ==
    \E selector \in Selectors :
        Begin("createTransport", selector, HostFeatures, HostVersion, "version", NoSignal)

WaitStates == {StateDevice, StateDisconnect}

WaitForService(selector, state) ==
    formatDeviceService(selector,
        WaitForPrefix \o WaitForType(selector).type \o Dash \o state)

CallWaitFor ==
    \E selector \in Selectors, state \in WaitStates, sig \in CallerSignals :
        IF WaitForType(selector).error # NoError
            THEN /\ pc = "idle"
                 /\ cmd' = "waitFor"
                 /\ device' = selector
                 /\ signal' = sig
                 /\ abortedAtCall' = sig.aborted
                 /\ err' = WaitForType(selector).error
                 /\ errSite' = "waitFor"
                 /\ result' = Rejected(WaitForType(selector).error)
                 /\ pc' = "done"
                 /\ UNCHANGED <<service, request, stage, conns, abortedDuringAck, ret,
                                transportId, version, raceVars, socketVars>>
            ELSE Begin("waitFor", selector, <<>>, WaitForService(selector, state).value,
                       "main", sig)

(***************************************************************************)
(* connect(request, options).                                              *)
(***************************************************************************)
\* the promise of the called method rejects
Throw(error) ==
    /\ result' = Rejected(error)
    /\ pc' = "done"

\* the promise of the called method resolves
Return(value) ==
    /\ result' = Resolved(value)
    /\ pc' = "done"

\* line 139: await this.connection.connect(options)
ConnectDial ==
    /\ pc = "c_dial"
    /\ \/ /\ Throw(Err("TransportError", <<>>))
          /\ err' = Err("TransportError", <<>>)
          /\ errSite' = "connector"
          /\ UNCHANGED conns
       \/ /\ \E script \in ServerScripts(cmd, stage), size \in ChunkSizes :
                 conns' = Append(conns, NewConnection(request, script, size))
          /\ pc' = "c_write"
          /\ UNCHANGED <<err, errSite, result>>
    /\ UNCHANGED <<callVars, signalVars, request, stage, ret, transportId, version>>
    /\ UNCHANGED <<raceVars, socketVars>>

\* connect going on to the ack without awaiting the outcome of the write
ConnectWrite_Unawaited ==
    /\ pc = "c_write"
    /\ \E ok \in BOOLEAN :
        conns' = AfterIo(<<>>, <<Event("write", writeString(request), ok)>>)
    /\ pc' = "c_race"
    /\ UNCHANGED <<callVars, signalVars, request, stage, err, errSite, ret, result,
                   transportId, version>>
    /\ UNCHANGED <<raceVars, socketVars>>

\* lines 141-145: the request frame is written with one writer.write
ConnectWrite ==
    /\ pc = "c_write"
    /\ \/ /\ conns' = AfterIo(<<>>, <<Event("write", writeString(request), TRUE)>>)
          /\ pc' = "c_race"
          /\ UNCHANGED <<err, errSite>>
       \/ /\ conns' = AfterIo(<<>>, <<Event("write", writeString(request), FALSE)>>)
          /\ err' = WriteError
          /\ errSite' = "connect"
          /\ pc' = "c_wfail_cancel"
    /\ UNCHANGED <<callVars, signalVars, request, stage, ret, result, transportId, version>>
    /\ UNCHANGED <<raceVars, socketVars>>

\* line 146: await connection.readable.cancel()
ConnectWriteFailCancel ==
    /\ pc = "c_wfail_cancel"
    /\ \E ok \in BOOLEAN :
        /\ conns' = AfterIo(<<>>, <<Event("cancel", <<>>, ok)>>)
        /\ IF ok THEN pc' = "c_wfail_close" /\ UNCHANGED result
                 ELSE Throw(CancelError)
    /\ UNCHANGED <<callVars, signalVars, request, stage, err, errSite, ret, transportId,
                   version>>
    /\ UNCHANGED <<raceVars, socketVars>>

\* lines 147-148: await connection.close(); throw e
ConnectWriteFailClose ==
    /\ pc = "c_wfail_close"
    /\ \E ok \in BOOLEAN :
        /\ conns' = AfterIo(<<>>, <<Event("close", <<>>, ok)>>)
        /\ IF ok THEN Throw(err) ELSE Throw(CloseError)
    /\ UNCHANGED <<callVars, signalVars, request, stage, err, errSite, ret, transportId,
                   version>>
    /\ UNCHANGED <<raceVars, socketVars>>

\* raceSignal, lines 472-483: an aborted signal throws its reason before the
\* callback runs; otherwise the listener is added and readOkay is started
ConnectRace ==
    /\ pc = "c_race"
    /\ IF signal.given /\ signal.aborted
           THEN /\ err' = Aborted(signal.reason)
                /\ errSite' = "connect"
                /\ pc' = "c_cleanup_cancel"
                /\ UNCHANGED signal
           ELSE /\ signal' = [signal EXCEPT
                                 !.listeners = IF signal.given THEN @ + 1 ELSE @]
                /\ pc' = "c_ackwait"
                /\ UNCHANGED <<err, errSite>>
    /\ UNCHANGED <<callVars, abortedAtCall, abortedDuringAck, request, stage, conns, ret,
                   result, transportId, version>>
    /\ UNCHANGED <<raceVars, socketVars>>

\* where the caller of connect() goes on when connect() has resolved
AfterConnect ==
    IF stage = "bind" THEN "cd_write"
    ELSE IF stage = "version" \/ cmd = "getVersion" THEN "gv_read"
    ELSE IF cmd = "killServer" THEN "ks_close"
    ELSE IF cmd = "getServerFeatures" THEN "gsf_read"
    ELSE IF cmd = "getDevices" \/ stage = "list" THEN "gd_read"
    ELSE "done"

\* connect returning connection.readable, the stream below the buffered reader
ConnectAck_NoRelease ==
    /\ pc = "c_ackwait"
    /\ signal' = [signal EXCEPT !.listeners = 0]
    /\ IF readOkay(Rem).error = NoError
           THEN /\ conns' = [AfterIo(readOkay(Rem).reads, <<>>)
                                EXCEPT ![Len(conns)] = [@ EXCEPT !.buffer = <<>>, !.acked = TRUE]]
                /\ pc' = AfterConnect
                /\ result' = IF AfterConnect = "done" THEN Resolved(<<>>) ELSE result
                /\ UNCHANGED <<err, errSite>>
           ELSE /\ conns' = AfterIo(readOkay(Rem).reads, <<>>)
                /\ err' = readOkay(Rem).error
                /\ errSite' = "connect"
                /\ pc' = "c_cleanup_cancel"
                /\ UNCHANGED result
    /\ UNCHANGED <<callVars, abortedAtCall, abortedDuringAck, request, stage, ret,
                   transportId, version>>
    /\ UNCHANGED <<raceVars, socketVars>>

\* lines 155-169: readOkay settles first; the listener is removed; on OKAY the
\* connection is returned.  waitFor (line 434) resolves with it.
ConnectAck ==
    /\ pc = "c_ackwait"
    /\ signal' = [signal EXCEPT !.listeners = 0]
    /\ IF readOkay(Rem).error = NoError
           THEN /\ conns' = [AfterIo(readOkay(Rem).reads, <<>>)
                                EXCEPT ![Len(conns)] = [release(@) EXCEPT !.acked = TRUE]]
                /\ pc' = AfterConnect
                /\ result' = IF AfterConnect = "done" THEN Resolved(<<>>) ELSE result
                /\ UNCHANGED <<err, errSite>>
           ELSE /\ conns' = AfterIo(readOkay(Rem).reads, <<>>)
                /\ err' = readOkay(Rem).error
                /\ errSite' = "connect"
                /\ pc' = "c_cleanup_cancel"
                /\ UNCHANGED result
    /\ UNCHANGED <<callVars, abortedAtCall, abortedDuringAck, request, stage, ret,
                   transportId, version>>
    /\ UNCHANGED <<raceVars, socketVars>>

\* the caller aborts the signal; a listening raceSignal rejects with the
\* reason (lines 468-470) and removes its listener (lines 484-490)
Abort ==
    /\ signal.given
    /\ ~signal.aborted
    /\ pc \notin {"idle", "done"}
    /\ signal' = [signal EXCEPT !.aborted = TRUE, !.listeners = 0]
    /\ abortedDuringAck' = (abortedDuringAck \/ pc \in {"c_race", "c_ackwait"})
    /\ IF pc = "c_ackwait" /\ signal.listeners > 0
           THEN /\ err' = Aborted(signal.reason)
                /\ errSite' = "connect"
                /\ pc' = "c_cleanup_cancel"
           ELSE UNCHANGED <<err, errSite, pc>>
    /\ UNCHANGED <<callVars, abortedAtCall, request, stage, conns, ret, result,
                   transportId, version>>
    /\ UNCHANGED <<raceVars, socketVars>>

\* line 171: await readable.cancel().catch(NOOP)
ConnectCleanupCancel ==
    /\ pc = "c_cleanup_cancel"
    /\ \E ok \in BOOLEAN :
        conns' = AfterIo(<<>>, <<Event("cancel", <<>>, ok)>>)
    /\ pc' = "c_cleanup_close"
    /\ UNCHANGED <<callVars, signalVars, request, stage, err, errSite, ret, result,
                   transportId, version>>
    /\ UNCHANGED <<raceVars, socketVars>>

\* lines 172-173: await connection.close(); throw e
ConnectCleanupClose ==
    /\ pc = "c_cleanup_close"
    /\ \E ok \in BOOLEAN :
        /\ conns' = AfterIo(<<>>, <<Event("close", <<>>, ok)>>)
        /\ IF ok THEN Throw(err) ELSE Throw(CloseError)
    /\ UNCHANGED <<callVars, signalVars, request, stage, err, errSite, ret, transportId,
                   version>>
    /\ UNCHANGED <<raceVars, socketVars>>

(***************************************************************************)
(* The commands that keep their connection to themselves.                  *)
(***************************************************************************)
\* `connection.writable.close().catch(NOOP); readable.cancel().catch(NOOP)`:
\* both are started, neither is awaited
CloseStreams == <<Event("wclose", <<>>, TRUE), Event("cancel", <<>>, TRUE)>>

\* lines 181-182: length frame, then hex digits of the version
ReadVersion(rem) ==
    LET head == readExactly(rem, 4)
        length == hexToNumber(head.value)
        body == readExactly(Drop(rem, 4), length)
        number == hexToNumber(body.value)
    IN  IF head.error # NoError THEN head
        ELSE IF length = Undefined
            THEN ReadResult(Err("DecodeError", <<>>), <<>>, head.reads)
        ELSE IF body.error # NoError THEN ReadResult(body.error, <<>>, head.reads)
        ELSE IF number = Undefined
            THEN ReadResult(Err("DecodeError", <<>>), <<>>, head.reads \o body.reads)
        ELSE ReadResult(NoError, <<number>>, head.reads \o body.reads)

\* getVersion after connect("host:version") has resolved
GetVersionRead ==
    /\ pc = "gv_read"
    /\ conns' = AfterIo(ReadVersion(Rem).reads, CloseStreams)
    /\ IF ReadVersion(Rem).error # NoError
           THEN /\ Throw(ReadVersion(Rem).error)
                /\ err' = ReadVersion(Rem).error
                /\ errSite' = "getVersion"
                /\ UNCHANGED version
           ELSE /\ version' = ReadVersion(Rem).value[1]
                /\ IF cmd = "getVersion"
                       THEN Return(ReadVersion(Rem).value)
                       ELSE pc' = "vv_check" /\ UNCHANGED result
                /\ UNCHANGED <<err, errSite>>
    /\ UNCHANGED <<callVars, signalVars, request, stage, ret, transportId>>
    /\ UNCHANGED <<raceVars, socketVars>>

\* killServer after connect("host:kill") has resolved
KillServerClose ==
    /\ pc = "ks_close"
    /\ conns' = AfterIo(<<>>, CloseStreams)
    /\ Return(<<>>)
    /\ UNCHANGED <<callVars, signalVars, request, stage, err, errSite, ret, transportId,
                   version>>
    /\ UNCHANGED <<raceVars, socketVars>>

\* getServerFeatures after connect("host:host-features") has resolved
GetServerFeaturesRead ==
    /\ pc = "gsf_read"
    /\ conns' = AfterIo(readString(Rem).reads, CloseStreams)
    /\ IF readString(Rem).error # NoError
           THEN /\ Throw(readString(Rem).error)
                /\ err' = readString(Rem).error
                /\ errSite' = "getServerFeatures"
           ELSE /\ Return(Split(readString(Rem).value, 44))
                /\ UNCHANGED <<err, errSite>>
    /\ UNCHANGED <<callVars, signalVars, request, stage, ret, transportId, version>>
    /\ UNCHANGED <<raceVars, socketVars>>

\* find taking the first listed device whatever its transport id
FindDevice_First(devices, id) == IF devices = <<>> THEN <<>> ELSE <<Head(devices)>>

\* line 444: devices.find((device) => device.transportId === transportId)
RECURSIVE FindDevice(_, _)
FindDevice(devices, id) ==
    IF devices = <<>> THEN <<>>
    ELSE IF Head(devices).transportId = id THEN <<Head(devices)>>
    ELSE FindDevice(Tail(devices), id)

\* lines 446-459: the banner and the transport built from info, features and
\* transportId; info is <<>> for undefined
AdbServerTransport(info, features, id) ==
    [serial |-> IF info = <<>> THEN <<>> ELSE info[1].serial,
     banner |-> [product |-> IF info = <<>> THEN UndefinedString ELSE info[1].product,
                 model |-> IF info = <<>> THEN UndefinedString ELSE info[1].model,
                 device |-> IF info = <<>> THEN UndefinedString ELSE info[1].device,
                 features |-> features],
     transportId |-> id]

\* getDevices after connect("host:devices-l") has resolved; createTransport
\* (lines 442-459) goes on with the devices
GetDevicesRead ==
    /\ pc = "gd_read"
    /\ conns' = AfterIo(readString(Rem).reads, CloseStreams)
    /\ IF readString(Rem).error # NoError
           THEN /\ Throw(readString(Rem).error)
                /\ err' = readString(Rem).error
                /\ errSite' = "getDevices"
           ELSE IF ParseDevices(readString(Rem).value).error # NoError
               THEN /\ Throw(ParseDevices(readString(Rem).value).error)
                    /\ err' = ParseDevices(readString(Rem).value).error
                    /\ errSite' = "getDevices"
               ELSE /\ IF cmd = "createTransport"
                           THEN Return(AdbServerTransport(
                                    FindDevice(ParseDevices(readString(Rem).value).devices,
                                               ret.transportId),
                                    ret.features, ret.transportId))
                           ELSE Return(ParseDevices(readString(Rem).value).devices)
                    /\ UNCHANGED <<err, errSite>>
    /\ UNCHANGED <<callVars, signalVars, request, stage, ret, transportId, version>>
    /\ UNCHANGED <<raceVars, socketVars>>

(***************************************************************************)
(* connectDevice and getDeviceFeatures.                                    *)
(***************************************************************************)
\* validateVersion's test, then lines 333-350: the selector chain and
\* connect(switchService)
ValidateVersion ==
    /\ pc = "vv_check"
    /\ IF ~VersionMatches(version)
           THEN /\ Throw(Err("VersionMismatch", <<version>>))
                /\ err' = Err("VersionMismatch", <<version>>)
                /\ errSite' = "validateVersion"
                /\ UNCHANGED <<request, stage, transportId>>
           ELSE IF SwitchService(device).error # NoError
               THEN /\ Throw(SwitchService(device).error)
                    /\ err' = SwitchService(device).error
                    /\ errSite' = "selector"
                    /\ UNCHANGED <<request, stage, transportId>>
               ELSE /\ request' = SwitchService(device).switchService
                    /\ transportId' = SwitchService(device).transportId
                    /\ stage' = "bind"
                    /\ pc' = "c_dial"
                    /\ UNCHANGED <<err, errSite, result>>
    /\ UNCHANGED <<callVars, signalVars, conns, ret, version>>
    /\ UNCHANGED <<raceVars, socketVars>>

\* lines 352-356: the service frame is written
ConnectDeviceWrite ==
    /\ pc = "cd_write"
    /\ \/ /\ conns' = AfterIo(<<>>, <<Event("write", writeString(service), TRUE)>>)
          /\ pc' = "cd_read"
          /\ UNCHANGED <<err, errSite>>
       \/ /\ conns' = AfterIo(<<>>, <<Event("write", writeString(service), FALSE)>>)
          /\ err' = WriteError
          /\ errSite' = "connectDevice"
          /\ pc' = "cd_wfail_cancel"
    /\ UNCHANGED <<callVars, signalVars, request, stage, ret, result, transportId, version>>
    /\ UNCHANGED <<raceVars, socketVars>>

\* line 357: await connection.readable.cancel()
ConnectDeviceWriteFailCancel ==
    /\ pc = "cd_wfail_cancel"
    /\ \E ok \in BOOLEAN :
        /\ conns' = AfterIo(<<>>, <<Event("cancel", <<>>, ok)>>)
        /\ IF ok THEN pc' = "cd_wfail_close" /\ UNCHANGED result
                 ELSE Throw(CancelError)
    /\ UNCHANGED <<callVars, signalVars, request, stage, err, errSite, ret, transportId,
                   version>>
    /\ UNCHANGED <<raceVars, socketVars>>

\* lines 358-359: await connection.close(); throw e
ConnectDeviceWriteFailClose ==
    /\ pc = "cd_wfail_close"
    /\ \E ok \in BOOLEAN :
        /\ conns' = AfterIo(<<>>, <<Event("close", <<>>, ok)>>)
        /\ IF ok THEN Throw(err) ELSE Throw(CloseError)
    /\ UNCHANGED <<callVars, signalVars, request, stage, err, errSite, ret, transportId,
                   version>>
    /\ UNCHANGED <<raceVars, socketVars>>

\* the handshake reading the 8-byte id whether or not the id is known
ReadTransport_AlwaysReads(rem, known) ==
    IF readExactly(rem, 8).error # NoError
        THEN ReadResult(readExactly(rem, 8).error, UndefinedString, <<>>)
        ELSE ReadResult(readOkay(Drop(rem, 8)).error, Uint64LE(readExactly(rem, 8).value),
                        readExactly(rem, 8).reads \o readOkay(Drop(rem, 8)).reads)

\* lines 364-375: [error, value, reads] of the optional 8-byte id and the ack;
\* value is the transport id
ReadTransport(rem, known) ==
    LET id == readExactly(rem, 8)
        ack == readOkay(Drop(rem, 8))
    IN  IF known # UndefinedString
            THEN ReadResult(readOkay(rem).error, known, readOkay(rem).reads)
        ELSE IF id.error # NoError THEN ReadResult(id.error, UndefinedString, <<>>)
        ELSE ReadResult(ack.error, Uint64LE(id.value), id.reads \o ack.reads)

\* lines 362-390: the socket is returned; getDeviceFeatures goes on with it
ConnectDeviceRead ==
    /\ pc = "cd_read"
    /\ conns' = IF ReadTransport(Rem, transportId).error # NoError
                    THEN AfterIo(ReadTransport(Rem, transportId).reads, <<>>)
                    ELSE [AfterIo(ReadTransport(Rem, transportId).reads, <<>>)
                             EXCEPT ![Len(conns)] = release(@)]
    /\ IF ReadTransport(Rem, transportId).error # NoError
           THEN /\ err' = ReadTransport(Rem, transportId).error
                /\ errSite' = "connectDevice"
                /\ pc' = "cd_cleanup_cancel"
                /\ UNCHANGED <<result, transportId>>
           ELSE /\ transportId' = ReadTransport(Rem, transportId).value
                /\ IF cmd = "connectDevice"
                       THEN Return([transportId |-> ReadTransport(Rem, transportId).value,
                                    service |-> service])
                       ELSE pc' = "gdf_read" /\ UNCHANGED result
                /\ UNCHANGED <<err, errSite>>
    /\ UNCHANGED <<callVars, signalVars, request, stage, ret, version>>
    /\ UNCHANGED <<raceVars, socketVars>>

\* line 392: await readable.cancel().catch(NOOP)
ConnectDeviceCleanupCancel ==
    /\ pc = "cd_cleanup_cancel"
    /\ \E ok \in BOOLEAN :
        conns' = AfterIo(<<>>, <<Event("cancel", <<>>, ok)>>)
    /\ pc' = "cd_cleanup_close"
    /\ UNCHANGED <<callVars, signalVars, request, stage, err, errSite, ret, result,
                   transportId, version>>
    /\ UNCHANGED <<raceVars, socketVars>>

\* lines 393-394: await connection.close(); throw e
ConnectDeviceCleanupClose ==
    /\ pc = "cd_cleanup_close"
    /\ \E ok \in BOOLEAN :
        /\ conns' = AfterIo(<<>>, <<Event("close", <<>>, ok)>>)
        /\ IF ok THEN Throw(err) ELSE Throw(CloseError)
    /\ UNCHANGED <<callVars, signalVars, request, stage, err, errSite, ret, transportId,
                   version>>
    /\ UNCHANGED <<raceVars, socketVars>>

\* lines 311-315: one string frame is read from the socket
GetDeviceFeaturesRead ==
    /\ pc = "gdf_read"
    /\ conns' = AfterIo(readString(Rem).reads, <<>>)
    /\ IF readString(Rem).error # NoError
           THEN /\ err' = readString(Rem).error
                /\ errSite' = "getDeviceFeatures"
                /\ UNCHANGED ret
           ELSE /\ ret' = [transportId |-> transportId,
                           features |-> Split(readString(Rem).value, 44)]
                /\ UNCHANGED <<err, errSite>>
    /\ pc' = "gdf_close"
    /\ UNCHANGED <<callVars, signalVars, request, stage, result, transportId, version>>
    /\ UNCHANGED <<raceVars, socketVars>>

\* getDeviceFeatures has settled with ret; createTransport (line 442) goes
\* on with getDevices -> connect("host:devices-l")
GetDeviceFeaturesReturn ==
    IF cmd = "createTransport"
        THEN /\ request' = HostDevicesL
             /\ stage' = "list"
             /\ pc' = "c_dial"
             /\ UNCHANGED result
        ELSE /\ Return(ret)
             /\ UNCHANGED <<request, stage>>

\* getDeviceFeatures settling without closing the socket
GetDeviceFeaturesClose_NoClose ==
    /\ pc = "gdf_close"
    /\ IF err # NoError THEN Throw(err) /\ UNCHANGED <<request, stage>>
                        ELSE GetDeviceFeaturesReturn
    /\ UNCHANGED <<callVars, signalVars, conns, err, errSite, ret, transportId, version>>
    /\ UNCHANGED <<raceVars, socketVars>>

\* lines 316-318: finally { await socket.close() }
GetDeviceFeaturesClose ==
    /\ pc = "gdf_close"
    /\ \E ok \in BOOLEAN :
        /\ conns' = AfterIo(<<>>, <<Event("close", <<>>, ok)>>)
        /\ IF ~ok THEN Throw(CloseError) /\ UNCHANGED <<request, stage>>
           ELSE IF err # NoError THEN Throw(err) /\ UNCHANGED <<request, stage>>
           ELSE GetDeviceFeaturesReturn
    /\ UNCHANGED <<callVars, signalVars, err, errSite, ret, transportId, version>>
    /\ UNCHANGED <<raceVars, socketVars>>

(***************************************************************************)
(* The client: one call of one method.                                     *)
(***************************************************************************)
Next ==
    \/ CallConnect
    \/ CallGetVersion
    \/ CallKillServer
    \/ CallGetServerFeatures
    \/ CallGetDevices
    \/ CallConnectDevice
    \/ CallGetDeviceFeatures
    \/ CallCreateTransport
    \/ CallWaitFor
    \/ ConnectDial
    \/ ConnectWrite
    \/ ConnectWriteFailCancel
    \/ ConnectWriteFailClose
    \/ ConnectRace
    \/ ConnectAck
    \/ Abort
    \/ ConnectCleanupCancel
    \/ ConnectCleanupClose
    \/ GetVersionRead
    \/ KillServerClose
    \/ GetServerFeaturesRead
    \/ GetDevicesRead
    \/ ValidateVersion
    \/ ConnectDeviceWrite
    \/ ConnectDeviceWriteFailCancel
    \/ ConnectDeviceWriteFailClose
    \/ ConnectDeviceRead
    \/ ConnectDeviceCleanupCancel
    \/ ConnectDeviceCleanupClose
    \/ GetDeviceFeaturesRead
    \/ GetDeviceFeaturesClose

Spec == Init /\ [][Next]_vars

(***************************************************************************)
(* getDevices alone, over devices-l payloads: the state in which           *)
(* connect("host:devices-l") has resolved and the listing frame follows.   *)
(***************************************************************************)
InitDevices ==
    /\ cmd = "getDevices"
    /\ device = SelNone
    /\ service = <<>>
    /\ request = HostDevicesL
    /\ stage = "main"
    /\ pc = "gd_read"
    /\ \E payload \in ListingPayloads :
        conns = << [request |-> HostDevicesL,
                    incoming |-> OKAY \o Frame(payload),
                    chunk |-> 1024,
                    source |-> <<Frame(payload)>>,
                    buffer |-> <<>>,
                    consumed |-> 4,
                    io |-> <<Event("write", writeString(HostDevicesL), TRUE),
                             Event("read", OKAY, TRUE)>>,
                    acked |-> TRUE] >>
    /\ signal = NoSignal
    /\ abortedAtCall = FALSE
    /\ abortedDuringAck = FALSE
    /\ err = NoError
    /\ errSite = "none"
    /\ ret = <<>>
    /\ result = Pending
    /\ transportId = UndefinedString
    /\ version = Undefined
    /\ RaceInit
    /\ SocketInit

NextDevices == GetDevicesRead

SpecDevices == InitDevices /\ [][NextDevices]_vars

(***************************************************************************)
(* The selector algebra alone: formatDeviceService and the selector chain  *)
(* of connectDevice applied to one selector and one command.               *)
(***************************************************************************)
\* serials with a colon, and the empty serial
FormatSerials == {SerialX, <<88, 58, 104>>, <<>>, <<117, 115, 98>>}

FormatSelectors ==
    Selectors \cup {SelSerial(x) : x \in FormatSerials} \cup {SelTransportId(<<>>)}

InitFormat ==
    /\ cmd = "formatDeviceService"
    /\ device \in FormatSelectors
    /\ service \in Requests
    /\ request = <<>>
    /\ stage = "main"
    /\ pc = "format"
    /\ conns = <<>>
    /\ signal = NoSignal
    /\ abortedAtCall = FALSE
    /\ abortedDuringAck = FALSE
    /\ err = NoError
    /\ errSite = "none"
    /\ ret = <<>>
    /\ result = Pending
    /\ transportId = UndefinedString
    /\ version = Undefined
    /\ RaceInit
    /\ SocketInit

\* formatDeviceService(device, service) and lines 333-348 of connectDevice
FormatDevice ==
    /\ pc = "format"
    /\ IF formatDeviceService(device, service).error # NoError
           THEN Throw(formatDeviceService(device, service).error)
           ELSE Return([value |-> formatDeviceService(device, service).value,
                        switchService |-> SwitchService(device).switchService])
    /\ UNCHANGED <<callVars, signalVars, request, stage, conns, err, errSite, ret,
                   transportId, version>>
    /\ UNCHANGED <<raceVars, socketVars>>

NextFormat == FormatDevice

SpecFormat == InitFormat /\ [][NextFormat]_vars

(***************************************************************************)
(* raceSignal(callback, ...signals) alone, lines 463-492.                  *)
(***************************************************************************)
\* an entry of the signals argument: undefined, a signal not yet aborted,
\* or a signal aborted with a reason
SignalEntries ==
    {NoSignal, Signal(TRUE, FALSE, <<>>, 0)} \cup {Signal(TRUE, TRUE, r, 0) : r \in Reasons}

SignalLists == UNION {[1..n -> SignalEntries] : n \in 0..MaxSignals}

\* what callback() may settle with
CallbackOutcomes == {Resolved(<<1>>), Rejected(Err("CallbackError", <<>>))}

InitRace ==
    /\ cmd = "raceSignal"
    /\ device = SelNone
    /\ service = <<>>
    /\ request = <<>>
    /\ stage = "main"
    /\ pc = "r_register"
    /\ conns = <<>>
    /\ signal = NoSignal
    /\ abortedAtCall = FALSE
    /\ abortedDuringAck = FALSE
    /\ err = NoError
    /\ errSite = "none"
    /\ ret = <<>>
    /\ result = Pending
    /\ transportId = UndefinedString
    /\ version = Undefined
    /\ signals \in SignalLists
    /\ index = 0
    /\ callback = NotCalled
    /\ abortPromise = Pending
    /\ raced = Pending
    /\ SocketInit

raceUnchanged ==
    UNCHANGED <<callVars, signalVars, request, stage, conns, errSite, ret, transportId,
                version, socketVars>>

\* the try block leaving the first loop at an aborted signal without
\* running the finally block
RaceRegister_NoFinally ==
    /\ pc = "r_register"
    /\ index < Len(signals)
    /\ index' = index + 1
    /\ IF ~signals[index + 1].given
           THEN UNCHANGED <<signals, err, pc, result>>
       ELSE IF signals[index + 1].aborted
           THEN /\ err' = Aborted(signals[index + 1].reason)
                /\ Throw(Aborted(signals[index + 1].reason))
                /\ UNCHANGED signals
       ELSE /\ signals' = [signals EXCEPT ![index + 1].listeners = @ + 1]
            /\ UNCHANGED <<err, pc, result>>
    /\ UNCHANGED <<callback, abortPromise, raced>>
    /\ raceUnchanged

\* lines 473-481: one round of the first loop
RaceRegister ==
    /\ pc = "r_register"
    /\ index < Len(signals)
    /\ index' = index + 1
    /\ IF ~signals[index + 1].given
           THEN UNCHANGED <<signals, err, pc>>
       ELSE IF signals[index + 1].aborted
           THEN /\ err' = Aborted(signals[index + 1].reason)
                /\ pc' = "r_finally"
                /\ UNCHANGED signals
       ELSE /\ signals' = [signals EXCEPT ![index + 1].listeners = @ + 1]
            /\ UNCHANGED <<err, pc>>
    /\ UNCHANGED <<callback, abortPromise, raced, result>>
    /\ raceUnchanged

\* line 483: callback() is called; it returns a promise or throws
RaceCallback ==
    /\ pc = "r_register"
    /\ index = Len(signals)
    /\ \/ /\ callback' = Pending
          /\ pc' = "r_racing"
          /\ UNCHANGED err
       \/ /\ callback' = Rejected(Err("CallbackError", <<>>))
          /\ err' = Err("CallbackError", <<>>)
          /\ pc' = "r_finally"
    /\ UNCHANGED <<signals, index, abortPromise, raced, result>>
    /\ raceUnchanged

\* the promise callback() returned settles; Promise.race (line 483) takes
\* the first settlement
CallbackSettle ==
    /\ callback = Pending
    /\ \E outcome \in CallbackOutcomes :
        /\ callback' = outcome
        /\ raced' = IF pc = "r_racing" /\ raced = Pending THEN outcome ELSE raced
    /\ UNCHANGED <<signals, index, abortPromise, err, pc, result>>
    /\ raceUnchanged

\* every abort settling the race anew
SignalAbort_LastWins ==
    /\ pc \in {"r_racing", "done"}
    /\ \E i \in 1..Len(signals), r \in Reasons :
        /\ signals[i].given
        /\ ~signals[i].aborted
        /\ signals' = [signals EXCEPT ![i].aborted = TRUE, ![i].reason = r]
        /\ IF signals[i].listeners > 0
               THEN /\ abortPromise' = Rejected(Aborted(r))
                    /\ raced' = IF pc = "r_racing" THEN Rejected(Aborted(r)) ELSE raced
               ELSE UNCHANGED <<abortPromise, raced>>
    /\ UNCHANGED <<index, callback, err, pc, result>>
    /\ raceUnchanged

\* a signal aborts while no synchronous part of raceSignal runs; the
\* listener (lines 468-470) rejects abortPromise with the signal's reason
SignalAbort ==
    /\ pc \in {"r_racing", "done"}
    /\ \E i \in 1..Len(signals), r \in Reasons :
        /\ signals[i].given
        /\ ~signals[i].aborted
        /\ signals' = [signals EXCEPT ![i].aborted = TRUE, ![i].reason = r]
        /\ IF signals[i].listeners > 0 /\ abortPromise = Pending
               THEN /\ abortPromise' = Rejected(Aborted(r))
                    /\ raced' = IF pc = "r_racing" /\ raced = Pending
                                    THEN Rejected(Aborted(r)) ELSE raced
               ELSE UNCHANGED <<abortPromise, raced>>
    /\ UNCHANGED <<index, callback, err, pc, result>>
    /\ raceUnchanged

\* lines 484-490: the finally block removes the listener from every signal;
\* then the thrown reason or the settlement of the race reaches the caller
RaceFinally ==
    /\ \/ pc = "r_finally" /\ result' = Rejected(err)
       \/ pc = "r_racing" /\ raced # Pending /\ result' = raced
    /\ signals' = [i \in 1..Len(signals) |->
                       IF signals[i].given THEN [signals[i] EXCEPT !.listeners = 0]
                                           ELSE signals[i]]
    /\ pc' = "done"
    /\ UNCHANGED <<index, callback, abortPromise, raced, err>>
    /\ raceUnchanged

NextRace ==
    \/ RaceRegister
    \/ RaceCallback
    \/ CallbackSettle
    \/ SignalAbort
    \/ RaceFinally

SpecRace == InitRace /\ [][NextRace]_vars

(***************************************************************************)
(* AdbSocketController, socket.ts.  One writer at a time calls the write   *)
(* callback of the WritableStream; the dispatcher calls ack(); the owner   *)
(* calls close() and dispose().                                            *)
(***************************************************************************)
\* Number.POSITIVE_INFINITY, and the arithmetic that meets it
Infinity == 0 - 2

Plus(a, b) == IF a = Infinity \/ b = Infinity THEN Infinity ELSE a + b

Minus(a, b) == IF a = Infinity THEN Infinity ELSE a - b

AtLeast(a, b) == a = Infinity \/ (b # Infinity /\ a >= b)

\* the arguments ack() is called with
AckBytes == {1, 2, Infinity}

ChunkLengths == 1..MaxChunkLength

\* packets: the command and the byteLength of the payload
WritePacket(byteLength) == [command |-> "WRTE", byteLength |-> byteLength]

ClosePacket == [command |-> "CLSE", byteLength |-> 0]

\* ConditionalVariable.wait(condition), the condition being
\* _availableWriteBytes >= threshold (0 for () => true): [lock, resolved].
\* A free lock is taken; the call resolves at once when it took the lock,
\* nobody is queued and the condition holds; otherwise it queues.
Wait(lock, threshold, available) ==
    IF ~lock.locked /\ lock.queue = <<>> /\ AtLeast(available, threshold)
        THEN [lock |-> [lock EXCEPT !.locked = TRUE], resolved |-> TRUE]
        ELSE [lock |-> [locked |-> TRUE, queue |-> Append(lock.queue, threshold)],
              resolved |-> FALSE]

\* ConditionalVariable.notifyOne(): [lock, resolved].  The first waiter leaves
\* the queue and is resolved when its condition holds; with no waiter the
\* lock is freed.
NotifyOne(lock, available) ==
    IF lock.queue = <<>>
        THEN [lock |-> [lock EXCEPT !.locked = FALSE], resolved |-> FALSE]
        ELSE [lock |-> [lock EXCEPT !.queue = Tail(@)],
              resolved |-> AtLeast(available, Head(lock.queue))]

socketUnchanged == UNCHANGED <<clientVars, raceVars>>

\* lines 112-134: the write callback up to its first await: the wait on
\* _writeLock, or the call of sendPacket
WriteStart ==
    /\ writer.pc = "idle"
    /\ ~disposed
    /\ Len(packets) < MaxPackets
    /\ \E byteLength \in ChunkLengths :
        IF availableWriteBytes = Infinity
            THEN /\ writeLock' = Wait(writeLock, 0, availableWriteBytes).lock
                 /\ writer' = Write(IF Wait(writeLock, 0, availableWriteBytes).resolved
                                        THEN "granted" ELSE "waiting",
                                    byteLength, availableWriteBytes)
                 /\ UNCHANGED packets
        ELSE IF availableWriteBytes < byteLength
            THEN /\ writeLock' = Wait(writeLock, byteLength, availableWriteBytes).lock
                 /\ writer' = Write(IF Wait(writeLock, byteLength, availableWriteBytes).resolved
                                        THEN "granted" ELSE "waiting",
                                    byteLength, availableWriteBytes)
                 /\ UNCHANGED packets
        ELSE /\ packets' = Append(packets, WritePacket(byteLength))
             /\ writer' = Write("sending", byteLength, availableWriteBytes)
             /\ UNCHANGED writeLock
    /\ UNCHANGED <<availableWriteBytes, closed, disposed, acks>>
    /\ socketUnchanged

\* lines 114 and 123-134: the wait has resolved; _availableWriteBytes is
\* set to 0 (it was Infinity at the call) or lowered by the chunk, and
\* sendPacket is called
WriteGranted ==
    /\ writer.pc = "granted"
    /\ availableWriteBytes' = IF writer.available = Infinity THEN 0
                                ELSE Minus(availableWriteBytes, writer.byteLength)
    /\ packets' = Append(packets, WritePacket(writer.byteLength))
    /\ writer' = [writer EXCEPT !.pc = "sending"]
    /\ UNCHANGED <<writeLock, closed, disposed, acks>>
    /\ socketUnchanged

\* lines 129-138: sendPacket has settled; after a sent packet the next
\* waiter is notified when bytes are left
WriteSent ==
    /\ writer.pc = "sending"
    /\ \/ /\ writer' = [writer EXCEPT !.pc = "idle"]
          /\ writeLock' = IF AtLeast(availableWriteBytes, 1)
                              THEN NotifyOne(writeLock, availableWriteBytes).lock
                              ELSE writeLock
       \/ /\ writer' = [writer EXCEPT !.pc = "failed"]
          /\ UNCHANGED writeLock
    /\ UNCHANGED <<availableWriteBytes, closed, disposed, packets, acks>>
    /\ socketUnchanged

\* ack(bytes) adding the bytes without notifying the write lock
Ack_NoNotify ==
    /\ Len(acks) < MaxAcks
    /\ \E bytes \in AckBytes :
        /\ acks' = Append(acks, bytes)
        /\ availableWriteBytes' = Plus(availableWriteBytes, bytes)
    /\ UNCHANGED <<writeLock, writer, closed, disposed, packets>>
    /\ socketUnchanged

\* lines 158-161: ack(bytes)
Ack ==
    /\ Len(acks) < MaxAcks
    /\ \E bytes \in AckBytes :
        /\ acks' = Append(acks, bytes)
        /\ availableWriteBytes' = Plus(availableWriteBytes, bytes)
        /\ writeLock' = NotifyOne(writeLock, Plus(availableWriteBytes, bytes)).lock
        /\ writer' = IF NotifyOne(writeLock, Plus(availableWriteBytes, bytes)).resolved
                         THEN [writer EXCEPT !.pc = "granted"]
                         ELSE writer
    /\ UNCHANGED <<closed, disposed, packets>>
    /\ socketUnchanged

\* close() without setting _closed
SocketClose_FlagUnset ==
    /\ ~closed
    /\ ~disposed
    /\ ~\E k \in 1..Len(packets) : packets[k] = ClosePacket
    /\ packets' = Append(packets, ClosePacket)
    /\ UNCHANGED <<availableWriteBytes, writeLock, closed, disposed, writer, acks>>
    /\ socketUnchanged

\* lines 163-165 and 87-97: close() runs the close callback of the duplex:
\* _closed is set and sendPacket(CLSE) is called; the callback returns false
SocketClose ==
    /\ ~closed
    /\ ~disposed
    /\ closed' = TRUE
    /\ packets' = Append(packets, ClosePacket)
    /\ UNCHANGED <<availableWriteBytes, writeLock, disposed, writer, acks>>
    /\ socketUnchanged

\* lines 167-169 and 99-102: dispose() runs the dispose callback:
\* _writeLock.dispose() rejects every queued wait
SocketDispose ==
    /\ ~disposed
    /\ disposed' = TRUE
    /\ writeLock' = [writeLock EXCEPT !.queue = <<>>]
    /\ writer' = IF writer.pc = "waiting" /\ writeLock.queue # <<>>
                     THEN [writer EXCEPT !.pc = "failed"]
                     ELSE writer
    /\ UNCHANGED <<availableWriteBytes, closed, packets, acks>>
    /\ socketUnchanged

NextSocket ==
    \/ WriteStart
    \/ WriteGranted
    \/ WriteSent
    \/ Ack
    \/ SocketClose
    \/ SocketDispose

SpecSocket == Init /\ [][NextSocket]_vars

(***************************************************************************)
(* Vocabulary of the properties.                                           *)
(***************************************************************************)
Done == pc = "done"

\* the operations called on a connection so far, in order
OpsOf(c) == [i \in 1..Len(c.io) |-> c.io[i].op]

Called(c, op) == \E i \in 1..Len(c.io) : c.io[i].op = op

CloseObserved(c) == Called(c, "close")

StreamsClosed(c) == Called(c, "wclose") /\ Called(c, "cancel")

\* the commands that hand no connection to their caller
OwnConnectionCommands ==
    {"getVersion", "killServer", "getServerFeatures", "getDevices", "waitFor"}

\* the number of UTF-8 bytes of a string
RECURSIVE Utf8Length(_)
Utf8Length(value) ==
    IF value = <<>> THEN 0
    ELSE (IF Head(value) < 128 THEN 1 ELSE IF Head(value) < 2048 THEN 2 ELSE 3)
             + Utf8Length(Tail(value))

LowerHexDigits == (48..57) \cup (97..102)

\* the 8 bytes that hold an unsigned 64-bit bigint, least significant first
U64Bytes(big) == Reverse([i \in 1..(8 - Len(big)) |-> 0] \o big)

\* connectDevice has returned a socket on the current connection
SocketReturned ==
    /\ stage = "bind"
    /\ \/ pc \in {"gdf_read", "gdf_close"}
       \/ Done /\ cmd = "connectDevice" /\ result.status = "ok"
       \/ Done /\ cmd = "getDeviceFeatures" /\ errSite \in {"none", "getDeviceFeatures"}

(***************************************************************************)
(* C1: every call of connect or connectDevice that fails after the         *)
(* connector returned a connection has seen close() of that connection     *)
(* called and completed before the error reaches the caller.               *)
(***************************************************************************)
C1_CloseBeforeError ==
    (Done /\ result.status = "error" /\ errSite \in {"connect", "connectDevice"})
        => CloseObserved(Cur)

(***************************************************************************)
(* C2: when the signal is already aborted at the call of connect, no byte  *)
(* of the request frame is written to the transport.                       *)
(***************************************************************************)
C2_NoWriteWhenAborted ==
    (cmd = "connect" /\ abortedAtCall)
        => \A i \in 1..Len(conns) : ~Called(conns[i], "write")

(***************************************************************************)
(* C3: when the signal fires after the request frame was written and       *)
(* before the OKAY ack was read, connect and waitFor fail with exactly the *)
(* signal's reason, the connection is closed and the call never resolves.  *)
(***************************************************************************)
C3_AbortDuringAck ==
    (Done /\ abortedDuringAck)
        => /\ result = Rejected(Aborted(signal.reason))
           /\ CloseObserved(Cur)

(***************************************************************************)
(* C4: in connect and connectDevice the error that reaches the caller is   *)
(* the primary error; a failing cancel() or close() of the cleanup never   *)
(* replaces it.                                                            *)
(***************************************************************************)
C4_PrimaryErrorSurfaced ==
    (Done /\ errSite \in {"connect", "connectDevice"}) => result = Rejected(err)

(***************************************************************************)
(* C5: a connect(req) that resolved has written, as its one write, four    *)
(* lower-case hex digits of the UTF-8 byte length of req followed by the   *)
(* UTF-8 bytes of req, and the first four bytes it consumed are OKAY.      *)
(***************************************************************************)
C5_RequestFrame ==
    \A i \in 1..Len(conns) :
        conns[i].acked =>
            /\ Len(conns[i].io) >= 2
            /\ conns[i].io[1].op = "write"
            /\ conns[i].io[1].ok
            /\ Len(conns[i].io[1].data) = 4 + Utf8Length(conns[i].request)
            /\ \A k \in 1..4 : conns[i].io[1].data[k] \in LowerHexDigits
            /\ hexToNumber(Take(conns[i].io[1].data, 4)) = Utf8Length(conns[i].request)
            /\ decodeUtf8(Drop(conns[i].io[1].data, 4)) = conns[i].request
            /\ conns[i].io[2] = Event("read", OKAY, TRUE)
            /\ Take(conns[i].incoming, 4) = OKAY
            /\ (cmd = "connect" /\ Done) => Len(conns[i].io) = 2

C5_Witness ==
    /\ cmd = "connect"
    /\ Done
    /\ result.status = "ok"
    /\ request = <<104, 8364>>

(***************************************************************************)
(* C6: connectDevice opens the device-binding connection only after a      *)
(* host:version exchange returned exactly 41; any other version fails the  *)
(* call with a version mismatch and no bind request is written.  The       *)
(* commands getVersion, killServer, getServerFeatures, getDevices and      *)
(* waitFor validate nothing first.                                         *)
(***************************************************************************)
C6_VersionBeforeBind ==
    /\ Len(conns) >= 2 =>
           /\ Len(conns) \in {2, IF cmd = "createTransport" THEN 3 ELSE 2}
           /\ conns[1].request = HostVersion
           /\ conns[1].acked
           /\ version = 41
           /\ Drop(conns[1].incoming, 4) = <<48, 48, 48, 52, 48, 48, 50, 57>>
           /\ conns[2].request = SwitchService(device).switchService
    /\ (cmd \in {"connectDevice", "getDeviceFeatures", "createTransport"}
            /\ version \notin {Undefined, 41}) =>
           /\ Len(conns) = 1
           /\ pc \in {"vv_check", "done"}
           /\ Done => result = Rejected(Err("VersionMismatch", <<version>>))
    /\ cmd \in OwnConnectionCommands =>
           /\ Len(conns) <= 1
           /\ \A i \in 1..Len(conns) : conns[i].request = request
           /\ result.error.kind # "VersionMismatch"

C6_Witness ==
    /\ cmd = "connectDevice"
    /\ Len(conns) = 2
    /\ Called(Cur, "write")

(***************************************************************************)
(* C7: a socket returned by connectDevice has a defined transportId: for a *)
(* {transportId: n} selector no 8-byte id is read and the id is n; for the *)
(* other selectors exactly 8 bytes are read after the service frame was    *)
(* written and before the second ack is read, and the id is their          *)
(* little-endian unsigned 64-bit value.                                    *)
(***************************************************************************)
C7_SocketTransportId ==
    SocketReturned =>
        /\ transportId # UndefinedString
        /\ (cmd = "connectDevice" /\ Done) => result.value.transportId = transportId
        /\ IF "transportId" \in device.keys
               THEN /\ transportId = device.transportId
                    /\ Take(OpsOf(Cur), 4) = <<"write", "read", "write", "read">>
                    /\ Cur.io[4].data = OKAY
                    /\ Cur.consumed >= 8
                    /\ Take(Cur.incoming, 8) = OKAY \o OKAY
               ELSE /\ Take(OpsOf(Cur), 5) = <<"write", "read", "write", "read", "read">>
                    /\ Cur.io[3].data = writeString(service)
                    /\ Len(Cur.io[4].data) = 8
                    /\ Cur.io[4].data = SubSeq(Cur.incoming, 5, 12)
                    /\ Cur.io[4].data = U64Bytes(transportId)
                    /\ Cur.io[5].data = OKAY

C7_Witness ==
    /\ cmd = "connectDevice"
    /\ Done
    /\ result.status = "ok"
    /\ device = SelUsb
    /\ result.value.transportId = <<128, 0, 0, 0, 0, 0, 0, 1>>

(***************************************************************************)
(* C8: whenever getDeviceFeatures settles after connectDevice succeeded,   *)
(* with a value or with the error of reading the features frame, close()   *)
(* of the socket's connection was awaited before.                          *)
(***************************************************************************)
C8_FeaturesClosesSocket ==
    (cmd = "getDeviceFeatures" /\ Done /\ SocketReturned) =>
        /\ CloseObserved(Cur)
        /\ Cur.io[Len(Cur.io)].op = "close"

C8_Witness ==
    /\ cmd = "getDeviceFeatures"
    /\ Done
    /\ result.status = "error"
    /\ errSite = "getDeviceFeatures"
    /\ result.error = err

(***************************************************************************)
(* C9: getVersion, killServer, getServerFeatures, getDevices and waitFor   *)
(* leak no socket: when the command has settled, every connection it got   *)
(* from the connector was closed (close(), or writable close and readable  *)
(* cancel both started).                                                   *)
(***************************************************************************)
C9_NoLeakedSocket ==
    (Done /\ cmd \in OwnConnectionCommands) =>
        \A i \in 1..Len(conns) : CloseObserved(conns[i]) \/ StreamsClosed(conns[i])

(***************************************************************************)
(* C10: getDevices returns only entries of lines whose second              *)
(* whitespace-separated token is exactly device, each with a transportId   *)
(* other than 0; a device line without transport_id (or with 0) fails the  *)
(* whole call with a missing-transport-id error that names the serial.     *)
(***************************************************************************)
\* the devices-l payload the server sent on the current connection
Listing == decodeUtf8(Drop(Cur.incoming, 8))

ListingLines == Split(Listing, 10)

\* the tokens of a line that are separated by spaces or tabs
WhitespaceTokens(line) ==
    SelectSeq(Split([i \in 1..Len(line) |-> IF line[i] = 9 THEN 32 ELSE line[i]], 32),
              NonEmpty)

DeviceStatus(line) ==
    Len(WhitespaceTokens(line)) >= 2 /\ WhitespaceTokens(line)[2] = StateDevice

\* the transport_id values a line gives
TransportIdValues(line) ==
    { Split(WhitespaceTokens(line)[i], 58)[2] :
        i \in { k \in 3..Len(WhitespaceTokens(line)) :
                  /\ Split(WhitespaceTokens(line)[k], 58)[1] = KeyTransportId
                  /\ Len(Split(WhitespaceTokens(line)[k], 58)) >= 2 } }

\* the line names no transport id, or names 0
TransportIdMissing(line) ==
    /\ \A k \in 3..Len(WhitespaceTokens(line)) :
           Split(WhitespaceTokens(line)[k], 58)[1] = KeyTransportId
               => Len(Split(WhitespaceTokens(line)[k], 58)) >= 2
    /\ \A value \in TransportIdValues(line) : value \in {<<>>, <<48>>}

C10_DeviceEntries ==
    (/\ cmd = "getDevices"
     /\ Done
     /\ Len(conns) = 1
     /\ Cur.acked
     /\ readString(Drop(Cur.incoming, 4)).error = NoError)
        => /\ result.status = "ok" =>
                  \A k \in 1..Len(result.value) :
                      /\ result.value[k].transportId \notin {<<>>, UndefinedString}
                      /\ \E n \in 1..Len(ListingLines) :
                             /\ DeviceStatus(ListingLines[n])
                             /\ WhitespaceTokens(ListingLines[n])[1] = result.value[k].serial
           /\ (DeviceStatus(ListingLines[1]) /\ TransportIdMissing(ListingLines[1]))
                  => result = Rejected(Err("MissingTransportId",
                                           WhitespaceTokens(ListingLines[1])[1]))

(***************************************************************************)
(* C11: a transport that createTransport returns carries the transport id  *)
(* the connectDevice handshake resolved and the features read on that      *)
(* handshake connection; serial, product, model and device are those of    *)
(* the first entry of the listing, read on another connection, whose       *)
(* transportId equals that id; without such an entry the call still        *)
(* succeeds, with serial "" and product, model and device undefined.       *)
(***************************************************************************)
\* the number of bytes of the bind connection the handshake consumed
HandshakeLength == IF "transportId" \in device.keys THEN 8 ELSE 16

\* the entries getDevices made of the listing on the current connection
ListedDevices == ParseDevices(Listing).devices

\* the places of the listing where the transport's id stands
MatchingEntries ==
    {k \in 1..Len(ListedDevices) : ListedDevices[k].transportId = result.value.transportId}

C11_TransportFromHandshake ==
    (cmd = "createTransport" /\ Done /\ result.status = "ok") =>
        /\ Len(conns) = 3
        /\ conns[2].request = SwitchService(device).switchService
        /\ conns[3].request = HostDevicesL
        /\ IF "transportId" \in device.keys
               THEN result.value.transportId = device.transportId
               ELSE U64Bytes(result.value.transportId) = SubSeq(conns[2].incoming, 5, 12)
        /\ result.value.banner.features
               = Split(readString(Drop(conns[2].incoming, HandshakeLength)).value, 44)
        /\ IF MatchingEntries = {}
               THEN /\ result.value.serial = <<>>
                    /\ result.value.banner.product = UndefinedString
                    /\ result.value.banner.model = UndefinedString
                    /\ result.value.banner.device = UndefinedString
               ELSE \E k \in MatchingEntries :
                    /\ \A j \in MatchingEntries : k <= j
                    /\ result.value.serial = ListedDevices[k].serial
                    /\ result.value.banner.product = ListedDevices[k].product
                    /\ result.value.banner.model = ListedDevices[k].model
                    /\ result.value.banner.device = ListedDevices[k].device

\* the transport of the second of two listed devices
C11_Witness ==
    /\ cmd = "createTransport"
    /\ Done
    /\ result.status = "ok"
    /\ Len(ListedDevices) = 2
    /\ MatchingEntries = {2}
    /\ result.value.serial = SerialX
    /\ result.value.banner.product = <<112>>

(***************************************************************************)
(* C12: a selector object with more than one of the properties             *)
(* transportId, serial, usb and tcp, or with none of them, is rejected     *)
(* with the invalid-selector error by connectDevice and waitFor (and by    *)
(* formatDeviceService, which waitFor applies): no request that names a    *)
(* device is written for it, and the call fails with that error.           *)
(***************************************************************************)
RecognisedKeys == {"transportId", "serial", "usb", "tcp"}

InvalidDevice(selector) ==
    ~selector.none /\ Cardinality(selector.keys \cap RecognisedKeys) # 1

C12_InvalidSelectorRejected ==
    (cmd \in {"connectDevice", "getDeviceFeatures", "createTransport", "waitFor"}
         /\ InvalidDevice(device)) =>
        /\ \A i \in 1..Len(conns) : conns[i].request = HostVersion
        /\ (Done /\ (cmd = "waitFor" \/ version = VERSION))
               => result = Rejected(InvalidSelector)

(***************************************************************************)
(* C13: on the five selector variants formatDeviceService(selector, c) and *)
(* the switch service of connectDevice are defined and are host:c,         *)
(* host-transport-id:N:c, host-serial:S:c, host-usb:c, host-local:c and    *)
(* host:tport:any, host:transport-id:N, host:tport:serial:S,               *)
(* host:tport:usb, host:tport:local; for one c no two selectors of         *)
(* different variant or payload give the same string.                      *)
(***************************************************************************)
\* the selector is undefined or has exactly one recognised property
ValidDevice(selector) ==
    selector.none \/ Cardinality(selector.keys \cap RecognisedKeys) = 1

\* the decimal literal of the transport ids of FormatSelectors
DecimalLiteral(big) ==
    IF big = <<>> THEN <<48>>
    ELSE IF big = <<5>> THEN <<53>>
    ELSE <<51, 48, 48>>

\* host:c and the other four, written out
ExpectedService(selector, c) ==
    IF selector.none THEN <<104, 111, 115, 116, 58>> \o c
    ELSE IF "transportId" \in selector.keys
        THEN <<104, 111, 115, 116, 45, 116, 114, 97, 110, 115, 112, 111, 114, 116, 45,
               105, 100, 58>> \o DecimalLiteral(selector.transportId) \o <<58>> \o c
    ELSE IF "serial" \in selector.keys
        THEN <<104, 111, 115, 116, 45, 115, 101, 114, 105, 97, 108, 58>>
                 \o selector.serial \o <<58>> \o c
    ELSE IF "usb" \in selector.keys
        THEN <<104, 111, 115, 116, 45, 117, 115, 98, 58>> \o c
    ELSE <<104, 111, 115, 116, 45, 108, 111, 99, 97, 108, 58>> \o c

\* host:tport:any and the other four, written out
ExpectedSwitch(selector) ==
    IF selector.none THEN <<104, 111, 115, 116, 58, 116, 112, 111, 114, 116, 58, 97, 110, 121>>
    ELSE IF "transportId" \in selector.keys
        THEN <<104, 111, 115, 116, 58, 116, 114, 97, 110, 115, 112, 111, 114, 116, 45,
               105, 100, 58>> \o DecimalLiteral(selector.transportId)
    ELSE IF "serial" \in selector.keys
        THEN <<104, 111, 115, 116, 58, 116, 112, 111, 114, 116, 58, 115, 101, 114, 105,
               97, 108, 58>> \o selector.serial
    ELSE IF "usb" \in selector.keys
        THEN <<104, 111, 115, 116, 58, 116, 112, 111, 114, 116, 58, 117, 115, 98>>
    ELSE <<104, 111, 115, 116, 58, 116, 112, 111, 114, 116, 58, 108, 111, 99, 97, 108>>

C13_SelectorStrings ==
    (cmd = "formatDeviceService" /\ Done /\ ValidDevice(device)) =>
        /\ result.status = "ok"
        /\ result.value.value = ExpectedService(device, service)
        /\ result.value.switchService = ExpectedSwitch(device)
        /\ \A other \in {sel \in FormatSelectors : ValidDevice(sel)} :
               /\ formatDeviceService(other, service).value = result.value.value
                      => other = device
               /\ SwitchService(other).switchService = result.value.switchService
                      => other = device

\* {tcp: true} with a command of non-ASCII characters
C13_Witness ==
    /\ cmd = "formatDeviceService"
    /\ Done
    /\ device = SelTcp
    /\ service = <<233, 8364>>
    /\ result.status = "ok"

(***************************************************************************)
(* C14: the I/O of a connection is strictly ordered.  No read is made      *)
(* before the request write has completed, and none after a write that     *)
(* failed.  On the device-binding connection the order is write(bind),     *)
(* read(ack1), write(service), read(8-byte id, where it is read),          *)
(* read(ack2): the service frame is the third call, made only after ack1   *)
(* was read as OKAY, and nothing is read between ack1 and that write.      *)
(***************************************************************************)
\* the places of the writes and reads among the calls on a connection
Writes(c) == {k \in 1..Len(c.io) : c.io[k].op = "write"}

Reads(c) == {k \in 1..Len(c.io) : c.io[k].op = "read"}

C14_StrictOrder ==
    \A i \in 1..Len(conns) :
        /\ Reads(conns[i]) # {} =>
               /\ conns[i].io[1].op = "write"
               /\ conns[i].io[1].ok
               /\ conns[i].io[1].data = writeString(conns[i].request)
        /\ \A k \in Writes(conns[i]) :
               ~conns[i].io[k].ok => \A j \in Writes(conns[i]) \cup Reads(conns[i]) : j <= k
        /\ Writes(conns[i]) \subseteq {1, 3}
        /\ 3 \in Writes(conns[i]) =>
               /\ i = 2
               /\ conns[i].acked
               /\ conns[i].io[2] = Event("read", OKAY, TRUE)
               /\ conns[i].io[3].data = writeString(service)
        /\ (/\ 3 \in Writes(conns[i])
            /\ 4 \in Reads(conns[i])
            /\ "transportId" \notin device.keys) =>
               /\ Len(conns[i].io[4].data) = 8
               /\ 5 \in Reads(conns[i]) => Len(conns[i].io[5].data) = 4

\* a socket bound through a {serial} selector: five calls in order
C14_Witness ==
    /\ cmd = "connectDevice"
    /\ Done
    /\ result.status = "ok"
    /\ device = SelSerial(SerialX)
    /\ OpsOf(Cur) = <<"write", "read", "write", "read", "read">>

(***************************************************************************)
(* C15: once raceSignal has settled, none of the signals it was given      *)
(* carries its abort listener, whichever way it settled: the callback      *)
(* resolved or rejected, a signal aborted during the race, or a signal was *)
(* found aborted after listeners were added to earlier signals.            *)
(***************************************************************************)
C15_NoListenerLeft ==
    (cmd = "raceSignal" /\ Done) => \A i \in 1..Len(signals) : signals[i].listeners = 0

\* the second signal was aborted at the call, the first had got a listener
C15_Witness ==
    /\ cmd = "raceSignal"
    /\ Done
    /\ Len(signals) = 2
    /\ signals[1].given
    /\ ~signals[1].aborted
    /\ callback = NotCalled
    /\ result = Rejected(Aborted(signals[2].reason))

(***************************************************************************)
(* C16: raceSignal is first-wins.  callback is called only when no signal  *)
(* is aborted, and a call that never called it fails with the reason of    *)
(* the first aborted signal.  Otherwise the first event among the callback *)
(* settling and a signal aborting settles the race, an aborting signal     *)
(* with its own reason; once settled, the race and the result of the call  *)
(* never change, whatever aborts or settles later.                         *)
(***************************************************************************)
\* the places of the signals that are aborted
AbortedSignals == {i \in 1..Len(signals) : signals[i].given /\ signals[i].aborted}

FirstWinsState ==
    cmd = "raceSignal" =>
        /\ (Done /\ callback = NotCalled) =>
               /\ err.kind = "Aborted"
               /\ result = Rejected(err)
        /\ (Done /\ callback # NotCalled /\ err = NoError) =>
               /\ raced # Pending
               /\ result = raced

FirstWinsStep ==
    cmd = "raceSignal" =>
        /\ (callback = NotCalled /\ callback' # NotCalled) => AbortedSignals = {}
        /\ (pc = "r_register" /\ pc' = "r_finally" /\ callback' = NotCalled) =>
               \E k \in AbortedSignals :
                   /\ \A j \in AbortedSignals : k <= j
                   /\ err' = Aborted(signals[k].reason)
        /\ (pc = "r_register" /\ AbortedSignals # {}) => callback' = NotCalled
        /\ raced # Pending => raced' = raced
        /\ result # Pending => result' = result
        /\ (raced = Pending /\ raced' # Pending) =>
               \/ callback = Pending /\ callback' = raced'
               \/ /\ AbortedSignals = {}
                  /\ \E i \in 1..Len(signals) :
                         /\ signals'[i].aborted
                         /\ raced' = Rejected(Aborted(signals'[i].reason))
        /\ (/\ pc = "r_racing"
            /\ raced = Pending
            /\ callback' # callback \/ AbortedSignals' # AbortedSignals) => raced' # Pending

C16_FirstWins == [][FirstWinsStep]_vars /\ []FirstWinsState

\* the first signal aborted with R1 and won; afterwards the second aborted
\* with R2 and the callback resolved
C16_Witness ==
    /\ cmd = "raceSignal"
    /\ Done
    /\ Len(signals) = 2
    /\ signals[1].aborted /\ signals[1].reason = <<82, 49>>
    /\ signals[2].aborted /\ signals[2].reason = <<82, 50>>
    /\ callback = Resolved(<<1>>)
    /\ result = Rejected(Aborted(<<82, 49>>))

(***************************************************************************)
(* C17: the readable that connect() or connectDevice() returns delivers    *)
(* exactly the bytes the server sent after the handshake bytes that were   *)
(* consumed (the 4-byte OKAY of connect; on the bind connection also the   *)
(* 8-byte id, where it was read, and the second OKAY), in order, none lost *)
(* and none twice; the bytes the buffered reader had pulled beyond the     *)
(* handshake come first, as one chunk.                                     *)
(***************************************************************************)
\* the bytes a connection's readable has still to deliver
Delivers(c) == c.buffer \o Flatten(c.source)

\* the bytes the buffered reader has pulled beyond the first n, the
\* transport delivering chunks of c.chunk bytes
PulledBeyond(c, n) ==
    IF n % c.chunk = 0 THEN <<>>
    ELSE SubSeq(c.incoming, n + 1,
                IF Len(c.incoming) < n + c.chunk - (n % c.chunk)
                    THEN Len(c.incoming) ELSE n + c.chunk - (n % c.chunk))

\* the readable returned after a handshake of n bytes
ReturnedReadable(c, n) ==
    /\ c.consumed = n
    /\ c.buffer = <<>>
    /\ Flatten(c.source) = Drop(c.incoming, n)
    /\ PulledBeyond(c, n) # <<>> => Head(c.source) = PulledBeyond(c, n)

C17_ReleasedBytes ==
    /\ \A i \in 1..Len(conns) :
           conns[i].acked => Delivers(conns[i]) = Drop(conns[i].incoming, conns[i].consumed)
    /\ (cmd = "connect" /\ Done /\ result.status = "ok") => ReturnedReadable(Cur, 4)
    /\ (cmd = "connectDevice" /\ Done /\ result.status = "ok")
           => ReturnedReadable(Cur, HandshakeLength)

\* a socket whose handshake of 16 bytes ended inside a chunk of 3 bytes: the
\* two bytes pulled with the last ack come first
C17_Witness ==
    /\ cmd = "connectDevice"
    /\ Done
    /\ result.status = "ok"
    /\ device = SelUsb
    /\ Cur.chunk = 3
    /\ Len(Cur.source) >= 2
    /\ Head(Cur.source) = <<48, 48>>

(***************************************************************************)
(* C18: readOkay has three outcomes, decided by the first four bytes.      *)
(* OKAY: it succeeds and has consumed exactly those 4 bytes.  FAIL: it     *)
(* reads the one string frame that follows and fails with an error whose   *)
(* message is the text of that frame.  Any other four bytes: it fails with *)
(* the unexpected-response error and has read nothing more.                *)
(***************************************************************************)
\* readOkay of connect() has just settled on the current connection
AckSettled ==
    \/ pc = "c_cleanup_cancel" /\ errSite = "connect" /\ err.kind # "Aborted"
    \/ Cur.acked /\ pc \in {"cd_write", "gv_read", "ks_close", "gsf_read", "gd_read"}
    \/ Cur.acked /\ Done /\ cmd \in {"connect", "waitFor"}

\* the data of the reads made on a connection, in order
ReadData(c) == [k \in 1..Cardinality(Reads(c)) |-> c.io[k + 1].data]

\* the frame after the first four bytes is whole: four hex digits and as
\* many bytes as they say
WholeFrame(bytes) ==
    /\ Len(bytes) >= 4
    /\ hexToNumber(Take(bytes, 4)) # Undefined
    /\ Len(bytes) >= 4 + hexToNumber(Take(bytes, 4))

C18_ReadOkayOutcomes ==
    (Len(conns) >= 1 /\ Len(Cur.incoming) >= 4 /\ AckSettled) =>
        IF Take(Cur.incoming, 4) = OKAY
            THEN /\ Cur.acked
                 /\ Cur.consumed = 4
                 /\ ReadData(Cur) = <<OKAY>>
        ELSE IF Take(Cur.incoming, 4) = FAIL
            THEN /\ ~Cur.acked
                 /\ WholeFrame(Drop(Cur.incoming, 4)) =>
                        /\ err.kind = "ProtocolFailure"
                        /\ err.detail = decodeUtf8(Drop(Cur.incoming, 8))
                        /\ Cur.consumed = 8 + hexToNumber(SubSeq(Cur.incoming, 5, 8))
                        /\ Flatten(ReadData(Cur)) = Take(Cur.incoming, Cur.consumed)
                        /\ Take(ReadData(Cur), 2) = <<FAIL, SubSeq(Cur.incoming, 5, 8)>>
        ELSE /\ ~Cur.acked
             /\ err = Err("UnexpectedResponse", decodeUtf8(Take(Cur.incoming, 4)))
             /\ Len(Cur.incoming) > 4
             /\ Cur.consumed = 4
             /\ ReadData(Cur) = <<Take(Cur.incoming, 4)>>

\* FAIL and the frame 0002no
C18_Witness ==
    /\ pc = "c_cleanup_cancel"
    /\ errSite = "connect"
    /\ Cur.incoming = FAIL \o <<48, 48, 48, 50, 110, 111>>
    /\ err = Err("ProtocolFailure", <<110, 111>>)

(***************************************************************************)
(* C19: a write of a chunk whose byteLength is at most availableWriteBytes *)
(* at the call, Infinity included, is not made to wait for ack(): it goes  *)
(* on to sendPacket by its own steps alone.                                *)
(***************************************************************************)
\* the running write was called with enough bytes available
FitsAtCall == AtLeast(writer.available, writer.byteLength)

WriteFitsStep ==
    /\ (/\ writer.pc = "idle"
        /\ writer'.pc # "idle"
        /\ AtLeast(availableWriteBytes, writer'.byteLength))
           => /\ writer'.pc \in {"granted", "sending"}
              /\ acks' = acks
    /\ (writer.pc = "granted" /\ writer' # writer)
           => /\ writer'.pc = "sending"
              /\ packets' = Append(packets, WritePacket(writer.byteLength))
              /\ acks' = acks

CloseSent == \E k \in 1..Len(packets) : packets[k] = ClosePacket

ClosedStep ==
    /\ closed => closed'
    /\ (~closed /\ closed') =>
           /\ packets' = Append(packets, ClosePacket)
           /\ disposed' = disposed
           /\ writeLock' = writeLock
           /\ writer' = writer
           /\ availableWriteBytes' = availableWriteBytes

C20_ClosedFlag ==
    /\ [][ClosedStep]_vars
    /\ [](CloseSent <=> closed)

\* a write still waits for ack() after the socket was closed
C20_Witness ==
    /\ closed
    /\ ~disposed
    /\ CloseSent
    /\ writer.pc = "waiting"
    /\ writeLock.queue # <<>>

(***************************************************************************)
(* C21: when every ack() so far granted a finite number of bytes, the      *)
(* payload bytes handed to sendPacket(WRTE) never exceed the bytes         *)
(* granted, and availableWriteBytes is not negative and equals the bytes   *)
(* granted minus the bytes sent.                                           *)
(***************************************************************************)
RECURSIVE SumOf(_)
SumOf(ns) == IF ns = <<>> THEN 0 ELSE Head(ns) + SumOf(Tail(ns))

FiniteAcks == \A k \in 1..Len(acks) : acks[k] # Infinity

\* the bytes granted by the ack() calls, all finite
GrantedBytes == SumOf(acks)

\* the payload bytes of the WRTE packets handed to the dispatcher
SentBytes == SumOf([k \in 1..Len(packets) |-> packets[k].byteLength])

C21_WindowSafety ==
    FiniteAcks =>
        /\ SentBytes <= GrantedBytes
        /\ availableWriteBytes >= 0
        /\ availableWriteBytes = GrantedBytes - SentBytes

(***************************************************************************)
(* C22: a write that waits because availableWriteBytes was smaller than    *)
(* the byteLength of its chunk does not stay blocked once ack() calls,     *)
(* each possibly smaller than the chunk, have raised availableWriteBytes   *)
(* to the byteLength, unless the socket is disposed: in no state is the    *)
(* wait of such a write unresolved while the window suffices.              *)
(***************************************************************************)
\* the running write waits on the write lock for bytes
BlockedForWindow == writer.pc = "waiting" /\ ~FitsAtCall

SufficientWindow == AtLeast(availableWriteBytes, writer.byteLength)

NoWriteAdded ==
    /\ Len(packets') >= Len(packets)
    /\ \A k \in 1..Len(packets') :
           k > Len(packets) => packets'[k].command # "WRTE"

DisposeStep ==
    /\ (~disposed /\ disposed' /\ writer.pc = "waiting")
           => /\ writer'.pc = "failed"
              /\ NoWriteAdded
    /\ (disposed /\ writer.pc = "failed")
           => /\ writer'.pc = "failed"
              /\ NoWriteAdded

====
